---- MODULE Spec2Model ----
(***************************************************************************)
(* Per-event peer-validation consensus of the noise-monitoring device      *)
(* agent (fetch_services/agents/node.py, regional_agent.py).               *)
(*                                                                         *)
(* One agent is modelled.  It runs two cooperative handlers on one event   *)
(* loop: "sensor" (handle_sensor_data, driven by process_mqtt_queue) and   *)
(* "message" (handle_validation_request / handle_validation_response).     *)
(* A handler's pc names the external call it is suspended in; one step of  *)
(* a handler is the completion of that call followed by the code up to     *)
(* the next call.  The registry is an external directory that changes      *)
(* through the backend's /register and /deregister endpoints.              *)
(*                                                                         *)
(* Units: coordinates are in thousandths of a degree, readings in whole    *)
(* dB, the acceptance model's arithmetic in hundredths of a dB, the        *)
(* quorum ratio in percent.                                                *)
(***************************************************************************)
EXTENDS Integers, Sequences, FiniteSets, TLC

\* ------------------------------------------------------------------ bounds
MaxRegistryChanges == 1
MaxResponses == 4
MaxFaults == 1
MaxQueue == 2
MaxReports == 2
MaxPeers == 3
MaxReadings == 2
MaxFacts == 4

\* ------------------------------------------------------- program constants
FAILURE_THRESHOLD == 5
GRID_SIZE == 100
QUORUM_RATIO == 45
NOISE_FLOOR_THRESHOLD == 2000
CALIBRATION_MARGIN == 500
ATTENUATION_COEFFICIENT == 2
REFERENCE_DISTANCE == 1
CONSENSUS_THRESHOLD == 60

\* ------------------------------------------------------------ the universe
MAC_ADDRESS == "d1"
Macs == {"d1", "d2", "d3", "d4", "d5", "d6"}
ReservedKey == "_network_services"
NotaryAddress == "notary"

LocA1 == [latitude |-> 28511, longitude |-> 77013]
LocA2 == [latitude |-> 28512, longitude |-> 77014]
LocB == [latitude |-> 28611, longitude |-> 77013]

HomeLocation(mac) == IF mac = "d1" THEN LocA1 ELSE LocA2

\* The calls the backend receives while the agent runs: the peer d3 is
\* deregistered or registered in the agent's grid cell, the device d2 is
\* registered in another grid cell.
DeregisterInputs == {"d3"}
RegisterInputs == {<<"d2", LocB>>, <<"d3", LocA2>>}

SeedOf(mac) == <<"seed", mac>>
OutsiderSeed == <<"seed", "x">>

None == [type |-> "none"]

\* The None of a variable that otherwise holds an address string.
NoAddress == "None"

\* A registry entry as /register writes it (the fields the agents read).
Entry(mac, loc) ==
    [latitude |-> loc.latitude, longitude |-> loc.longitude, agent_seed |-> SeedOf(mac)]

ServicesEntry == [notary_agent_address |-> NotaryAddress]

\* The registry with the devices macs registered at their home locations.
Deployment(macs) ==
    [k \in macs \cup {ReservedKey} |->
        IF k = ReservedKey THEN ServicesEntry ELSE Entry(k, HomeLocation(k))]

\* The registries the agent may find at start-up: peer groups of 1, 2, 3 and 5
\* members around the agent's own device; the group of 2 with either peer.
Deployments ==
    { Deployment({"d1"}), Deployment({"d1", "d2"}), Deployment({"d1", "d3"}),
      Deployment({"d1", "d2", "d3"}), Deployment({"d1", "d3", "d4", "d5", "d6"}) }

\* ------------------------------------------------------ identity & signing
\* Identity.from_seed(seed, 0).address / PrivateKey(seed[:32]).public_key:
\* both are injective functions of the seed.
AddressOf(seed) == <<"agent", seed[2]>>
PublicKeyOf(seed) == <<"pub", seed[2]>>

\* A dict is the sequence of its <<key, value>> items in insertion order.
\* The keys of the payloads the agents sign, in the order sort_keys puts them.
KeyOrder == <<"decibel", "event_id", "location", "sound_class", "validated">>

Get(data, key) == data[CHOOSE i \in DOMAIN data : data[i][1] = key][2]

\* json.dumps(data) without sort_keys: the items as they were inserted.
json_dumps_unsorted(data) == data

\* json.dumps(data, sort_keys=True): the items of the dict in key order.
json_dumps_sorted(data) ==
    LET keys == SelectSeq(KeyOrder, LAMBDA k : \E i \in DOMAIN data : data[i][1] = k)
    IN  [i \in 1..Len(keys) |-> <<keys[i], Get(data, keys[i])>>]

get_digest(data) == [sha256 |-> json_dumps_sorted(data)]

sign(seed, digest) == [signer |-> PublicKeyOf(seed), digest |-> digest]

\* verify that checks the signer but not the digest.
verify_any_digest(pubkey, digest, signature) == signature.signer = pubkey

\* verify that checks the digest but not the signer.
verify_any_signer(pubkey, digest, signature) == signature.digest = digest

verify(pubkey, digest, signature) ==
    signature.signer = pubkey /\ signature.digest = digest

\* ------------------------------------------------------------ quorum maths
\* math.ceil(a / b) for b > 0.
Ceil(a, b) == -((-a) \div b)

\* RequiredQuorum rounding down instead of up.
RequiredQuorum_floor(num_peers_in_group) == (num_peers_in_group * QUORUM_RATIO) \div 100

\* math.ceil(num_peers_in_group * QUORUM_RATIO)
RequiredQuorum(num_peers_in_group) == Ceil(num_peers_in_group * QUORUM_RATIO, 100)


\* -------------------------------------------------------- geo bucketing
StartsWithUnderscore(mac) == mac = ReservedKey

\* Cells of one degree instead of a tenth.
GridId_coarse(loc) ==
    <<loc.latitude \div (10 * GRID_SIZE), loc.longitude \div (10 * GRID_SIZE)>>

\* (math.floor(latitude / GRID_SIZE), math.floor(longitude / GRID_SIZE))
GridId(loc) == <<loc.latitude \div GRID_SIZE, loc.longitude \div GRID_SIZE>>

\* get_local_peer_group, applied to the snapshot its read_registry() returned.
get_local_peer_group(all_configs, event_location) ==
    { AddressOf(all_configs[mac].agent_seed) :
        mac \in { m \in DOMAIN all_configs :
                    /\ ~StartsWithUnderscore(m)
                    /\ GridId(all_configs[m]) = GridId(event_location) } }

\* ------------------------------------------------------ acceptance model
\* Metres between two of the model's locations (haversine, rounded).
haversine_distance(loc1, loc2) ==
    IF loc1 = loc2 THEN 0
    ELSE IF {loc1, loc2} = {LocA1, LocA2} THEN 148
    ELSE IF {loc1, loc2} = {LocA1, LocB} THEN 11119
    ELSE 11009

\* 20 * log10(distance / REFERENCE_DISTANCE) in hundredths of a dB.
SpreadingLoss(distance) ==
    IF distance = 1 THEN 0
    ELSE IF distance = 148 THEN 4341
    ELSE IF distance = 11119 THEN 8092
    ELSE 8083

expected_decibel_at_distance(source_db, distance) ==
    LET d == IF distance < REFERENCE_DISTANCE THEN REFERENCE_DISTANCE ELSE distance
        absorption_loss == ATTENUATION_COEFFICIENT * (d - REFERENCE_DISTANCE)
    IN  source_db - SpreadingLoss(d) - absorption_loss

\* SmartConsensus.validate_event of node.py.
validate_event(request_data, peer_sensor_data, peer_agent_config) ==
    IF peer_sensor_data.decibel * 100 < NOISE_FLOOR_THRESHOLD THEN FALSE
    ELSE LET distance == haversine_distance(
                 request_data.location,
                 [latitude |-> peer_agent_config.latitude,
                  longitude |-> peer_agent_config.longitude])
             expected_db == expected_decibel_at_distance(request_data.decibel * 100, distance)
         IN  peer_sensor_data.decibel * 100 >= expected_db - CALIBRATION_MARGIN

\* SmartConsensus.validate_event of consensus/consensus_logic.py, which
\* regional_agent.py imports: each of its three branches returns True.
consensus_logic_validate_event(request_data, peer_sensor_data, peer_agent_config) ==
    IF peer_sensor_data.decibel * 100 < NOISE_FLOOR_THRESHOLD THEN TRUE
    ELSE LET distance == haversine_distance(
                 request_data.location,
                 [latitude |-> peer_agent_config.latitude,
                  longitude |-> peer_agent_config.longitude])
             expected_db == expected_decibel_at_distance(request_data.decibel * 100, distance)
         IN  IF peer_sensor_data.decibel * 100 > expected_db + CALIBRATION_MARGIN
             THEN TRUE
             ELSE TRUE

\* ------------------------------------------------------------ the inputs
Decibels == {15, 85, 140}
ReadingDevices == {"d1", "d2"}
Timestamps == {1}

\* SensorData records a gateway can deliver: the agent's own device reports a
\* loud event, the other device a level below the noise floor.
SensorDataInputs ==
    { [device_id |-> d, timestamp |-> t, decibel |-> IF d = MAC_ADDRESS THEN 85 ELSE 15] :
        d \in ReadingDevices, t \in Timestamps }

\* hashlib.sha256(f"{device_id}-{timestamp}"): one id per (device_id, timestamp).
EventId(device_id, timestamp) == <<device_id, timestamp>>

EventIds == { EventId(d, t) : d \in ReadingDevices, t \in Timestamps }

\* response_data = {"event_id": ..., "validated": ...}
ResponsePayload(event_id, validated) ==
    << <<"event_id", event_id>>, <<"validated", validated>> >>

\* request_data = {"event_id": ..., "location": ..., "sound_class": ..., "decibel": ...}
RequestPayload(event_id, location, sound_class, decibel) ==
    << <<"event_id", event_id>>, <<"location", location>>,
       <<"sound_class", sound_class>>, <<"decibel", decibel>> >>

\* The responder whose messages are delivered holds a key pair of its own and
\* is no device of the registry.
ResponderSeeds == {OutsiderSeed}

\* The signatures a delivered response may carry: by the key it names, by
\* another key, or by the key it names over the opposite vote.
ResponseSignatures(e, v, s) ==
    { sign(s, get_digest(ResponsePayload(e, v))),
      sign(SeedOf("d2"), get_digest(ResponsePayload(e, v))),
      sign(s, get_digest(ResponsePayload(e, ~v))) }

\* ValidationResponse messages the network can deliver.
ValidationResponseInputs ==
    UNION { { [type |-> "ValidationResponse", event_id |-> e, validated |-> v,
               public_key |-> PublicKeyOf(s), signature |-> sig] :
                sig \in ResponseSignatures(e, v, s) } :
            <<e, v, s>> \in EventIds \X BOOLEAN \X ResponderSeeds }

RequestSignatures(e, loc, db) ==
    { sign(SeedOf("d2"), get_digest(RequestPayload(e, loc, "ambient_noise", db))),
      sign(OutsiderSeed, get_digest(RequestPayload(e, loc, "ambient_noise", db))) }

\* ValidationRequest messages the network can deliver, from the peer d2.
ValidationRequestInputs ==
    UNION { { [type |-> "ValidationRequest", event_id |-> EventId("d2", 1),
               location |-> LocA2, sound_class |-> "ambient_noise", decibel |-> db,
               public_key |-> PublicKeyOf(SeedOf("d2")), signature |-> sig] :
                sig \in RequestSignatures(EventId("d2", 1), LocA2, db) } :
            db \in Decibels }

\* --------------------------------------------------------------- the state
VARIABLES
    registry,               \* the directory served by GET /registry
    regChanges,             \* number of /register and /deregister calls so far
    LOCAL_SENSOR_STATE,     \* the agent's last own reading, None before the first
    SENSOR_FAILURE_COUNTS,  \* device id -> recorded failures (absent key = 0)
    PENDING_LOCK,           \* "free", or the handler holding the lock
    pending_events,         \* event id -> pending event record
    NOTARY_AGENT_ADDRESS,   \* cached notary address, None until first fetched
    task,                   \* handler -> its position and locals
    mqtt_msg,               \* the MQTT callback's last message and what became of it
    message_queue,          \* readings put by the MQTT callback, not yet pulled
    faults,                 \* the failed external calls: their number, and the last one
    call,                   \* the last call of a pure function: its arguments and result
    network,                \* the readings published so far, and the requests sent
                            \* to peers that have not answered yet
    history,                \* per device: the events rejected and the slash requests
                            \* issued so far
    WRITTEN_LOCATIONS,      \* notary: the loc_ids it takes as written
    EVENT_COUNTER,          \* notary: the number of the last noise event
    gist                    \* the atoms appended to knowledge_graph.metta since the
                            \* notary started

NotaryVars == <<WRITTEN_LOCATIONS, EVENT_COUNTER, gist>>

vars == <<registry, regChanges, LOCAL_SENSOR_STATE, SENSOR_FAILURE_COUNTS,
          PENDING_LOCK, pending_events, NOTARY_AGENT_ADDRESS, task,
          mqtt_msg, message_queue, faults, call, network, history, NotaryVars>>

Handlers == {"sensor", "message"}

Other(h) == IF h = "sensor" THEN "message" ELSE "sensor"

Idle == [pc |-> "idle", msg |-> None, location |-> None, group |-> {},
         peers |-> {}, peer |-> None, reply |-> None]

\* The agent's own registry entry and identity, read once at start-up.
CONFIG == Entry(MAC_ADDRESS, HomeLocation(MAC_ADDRESS))
agent_address == AddressOf(CONFIG.agent_seed)

\* Positions in which the handler is inside a synchronous (blocking) HTTP call:
\* the event loop runs no other handler until it returns.
SyncLabels == {"s_registry", "s_group", "r_registry", "r_group", "r_slash",
               "fa_notary_registry"}

\* Positions in which the handler has an external call in progress.
NetworkLabels == SyncLabels \cup {"s_send", "q_send", "fa_raw", "fa_fact", "fa_enriched"}

\* A handler runs when the other one is not inside a blocking call and the
\* process has not exited (sys.exit in read_registry).
CanRun(h) == task[Other(h)].pc \notin SyncLabels \cup {"exited"}

\* No pure function was called yet.
NoCall == [fn |-> "none", args |-> <<>>, result |-> <<>>]

Init ==
    /\ registry \in Deployments
    /\ regChanges = 0
    /\ LOCAL_SENSOR_STATE = None
    /\ SENSOR_FAILURE_COUNTS = [m \in ReadingDevices |-> 0]
    /\ PENDING_LOCK = "free"
    /\ pending_events = <<>>
    /\ NOTARY_AGENT_ADDRESS = NoAddress
    /\ task = [h \in Handlers |-> Idle]
    /\ mqtt_msg = [payload |-> None, outcome |-> "none"]
    /\ message_queue = <<>>
    /\ faults = [count |-> 0, last |-> <<"none", "none">>]
    /\ call = NoCall
    /\ network = [readings |-> 0, requests |-> {}]
    /\ history = [rejected |-> [m \in ReadingDevices |-> 0],
                  slashed |-> [m \in ReadingDevices |-> 0]]
    /\ WRITTEN_LOCATIONS = {}
    /\ EVENT_COUNTER = 0
    /\ gist = <<>>

\* ------------------------------------------------------------- directory
\* POST /register: a device that is not registered gets an entry.
register_sensor(mac, loc) ==
    /\ regChanges < MaxRegistryChanges
    /\ mac \notin DOMAIN registry
    /\ registry' = [k \in DOMAIN registry \cup {mac} |->
                       IF k = mac THEN Entry(mac, loc) ELSE registry[k]]
    /\ regChanges' = regChanges + 1
    /\ UNCHANGED <<call, mqtt_msg, message_queue, faults, network, history, NotaryVars, LOCAL_SENSOR_STATE, SENSOR_FAILURE_COUNTS,
                   PENDING_LOCK, pending_events, NOTARY_AGENT_ADDRESS, task>>

\* POST /deregister: a registered device loses its entry.
deregister_sensor(mac) ==
    /\ regChanges < MaxRegistryChanges
    /\ mac \in DOMAIN registry
    /\ registry' = [k \in DOMAIN registry \ {mac} |-> registry[k]]
    /\ regChanges' = regChanges + 1
    /\ UNCHANGED <<call, mqtt_msg, message_queue, faults, network, history, NotaryVars, LOCAL_SENSOR_STATE, SENSOR_FAILURE_COUNTS,
                   PENDING_LOCK, pending_events, NOTARY_AGENT_ADDRESS, task>>


\* ------------------------------------------------------------ the handlers
SetTask(h, t) == task' = [task EXCEPT ![h] = t]

\* A removal that clears the whole table.
Delete_all(events, event_id) == [e \in {} |-> events[e]]

\* del pending_events[event_id]
Delete(events, event_id) == [e \in DOMAIN events \ {event_id} |-> events[e]]

NewEvent(msg) ==
    [raw_data |-> msg, responses |-> <<>>, predicted_class |-> "ambient_noise",
     confidence |-> 99]

\* NoPeersAvailable with the comparison off by one.
NoPeersAvailable_strict(event_local_group) == Cardinality(event_local_group) < 1

\* len(event_local_group) <= 1
NoPeersAvailable(event_local_group) == Cardinality(event_local_group) <= 1

\* The order in which the fan-out loop visits the addresses of a set.
MacOrder == <<"d1", "d2", "d3", "d4", "d5", "d6">>

Rank(address) == CHOOSE i \in 1..Len(MacOrder) : MacOrder[i] = address[2]

FirstOf(addresses) == CHOOSE p \in addresses : \A q \in addresses : Rank(p) <= Rank(q)

\* The fan-out loop with the test "peer_address != str(agent.address)" left out.
Recipients_with_self(event_local_group) == event_local_group

\* The peers the fan-out loop sends to: the group without the agent itself.
Recipients(event_local_group) == event_local_group \ {agent_address}

\* The signed ValidationRequest of the handler's event.
validation_request(t) ==
    LET request_data == RequestPayload(EventId(t.msg.device_id, t.msg.timestamp),
                                       t.location, "ambient_noise", t.msg.decibel)
    IN  [type |-> "ValidationRequest", event_id |-> Get(request_data, "event_id"),
         location |-> Get(request_data, "location"),
         sound_class |-> Get(request_data, "sound_class"),
         decibel |-> Get(request_data, "decibel"),
         public_key |-> PublicKeyOf(CONFIG.agent_seed),
         signature |-> sign(CONFIG.agent_seed, get_digest(request_data))]

\* A store that keeps the record already held under the id.
StoreEvent_if_absent(events, event_id, event) ==
    [e \in DOMAIN events \cup {event_id} |->
        IF e \in DOMAIN events THEN events[e] ELSE event]

\* pending_events[event_id] = {...}
StoreEvent(events, event_id, event) ==
    [e \in DOMAIN events \cup {event_id} |->
        IF e = event_id THEN event ELSE events[e]]

\* handle_sensor_data from the locked creation of the pending event up to the
\* next suspension: the raw-data POST of the auto-accept path, or the first
\* ctx.send of the fan-out.
CreateAndContinue(t) ==
    LET event_id == EventId(t.msg.device_id, t.msg.timestamp)
        recipients == Recipients(t.group)
    IN  /\ pending_events' = StoreEvent(pending_events, event_id, NewEvent(t.msg))
        /\ IF NoPeersAvailable(t.group)
           THEN SetTask("sensor", [t EXCEPT !.pc = "fa_raw"])
           ELSE IF recipients = {}
           THEN SetTask("sensor", Idle)
           ELSE SetTask("sensor", [t EXCEPT !.pc = "s_send", !.peer = FirstOf(recipients),
                                            !.peers = recipients \ {FirstOf(recipients)},
                                            !.reply = validation_request(t)])

\* process_mqtt_queue pulls a reading and calls handle_sensor_data, which
\* stores it as the local reading and fetches the registry.
HandleSensorData(msg) ==
    /\ task["sensor"].pc = "idle"
    /\ CanRun("sensor")
    /\ LOCAL_SENSOR_STATE' = msg
    /\ SetTask("sensor", [Idle EXCEPT !.pc = "s_registry", !.msg = msg])
    /\ UNCHANGED <<registry, regChanges, SENSOR_FAILURE_COUNTS, PENDING_LOCK,
                   pending_events, NOTARY_AGENT_ADDRESS>>

handle_sensor_data(msg) == HandleSensorData(msg) /\ UNCHANGED <<call, mqtt_msg, message_queue, faults, network, history, NotaryVars>>

\* read_registry() returned: an unregistered device ends the handler, otherwise
\* the peer group is looked up (a second registry fetch).
SensorRegistryStep(all_configs) ==
    LET t == task["sensor"] IN
    /\ t.pc = "s_registry"
    /\ CanRun("sensor")
    /\ IF t.msg.device_id \notin DOMAIN all_configs
       THEN SetTask("sensor", Idle)
       ELSE SetTask("sensor",
                [t EXCEPT !.pc = "s_group",
                          !.location = [latitude |-> all_configs[t.msg.device_id].latitude,
                                        longitude |-> all_configs[t.msg.device_id].longitude]])
    /\ UNCHANGED <<call, mqtt_msg, message_queue, registry, regChanges, LOCAL_SENSOR_STATE, SENSOR_FAILURE_COUNTS,
                   PENDING_LOCK, pending_events, NOTARY_AGENT_ADDRESS>>

sensor_registry_fetched == SensorRegistryStep(registry) /\ UNCHANGED <<faults, network, history, NotaryVars>>

\* get_local_peer_group returned; the handler takes the lock if it is free and
\* waits for it otherwise.
SensorGroupStep(all_configs) ==
    LET t == task["sensor"]
        u == [t EXCEPT !.group = get_local_peer_group(all_configs, t.location)]
    IN
    /\ t.pc = "s_group"
    /\ CanRun("sensor")
    /\ IF PENDING_LOCK = "free"
       THEN CreateAndContinue(u)
       ELSE SetTask("sensor", [u EXCEPT !.pc = "s_lock"]) /\ UNCHANGED pending_events
    /\ UNCHANGED <<call, mqtt_msg, message_queue, registry, regChanges, LOCAL_SENSOR_STATE, SENSOR_FAILURE_COUNTS,
                   PENDING_LOCK, NOTARY_AGENT_ADDRESS>>

sensor_group_fetched == SensorGroupStep(registry) /\ UNCHANGED <<faults, network, history, NotaryVars>>

\* The lock the handler waited for was released.
sensor_lock_acquired ==
    /\ task["sensor"].pc = "s_lock"
    /\ CanRun("sensor")
    /\ PENDING_LOCK = "free"
    /\ CreateAndContinue(task["sensor"])
    /\ UNCHANGED <<call, mqtt_msg, message_queue, faults, network, history, NotaryVars, registry, regChanges, LOCAL_SENSOR_STATE, SENSOR_FAILURE_COUNTS,
                   PENDING_LOCK, NOTARY_AGENT_ADDRESS>>

\* One ctx.send of the fan-out returned; the loop goes on to the next peer.
SensorSendStep ==
    LET t == task["sensor"] IN
    /\ t.pc = "s_send"
    /\ CanRun("sensor")
    /\ IF t.peers = {}
       THEN SetTask("sensor", Idle)
       ELSE SetTask("sensor", [t EXCEPT !.peer = FirstOf(t.peers),
                                        !.peers = t.peers \ {FirstOf(t.peers)}])
    /\ UNCHANGED <<call, mqtt_msg, message_queue, registry, regChanges, LOCAL_SENSOR_STATE, SENSOR_FAILURE_COUNTS,
                   PENDING_LOCK, pending_events, NOTARY_AGENT_ADDRESS>>

sensor_request_sent == SensorSendStep /\ UNCHANGED <<faults, network, history, NotaryVars>>

\* The event id the handler is working on.
TaskEventId(h) ==
    IF h = "sensor"
    THEN EventId(task[h].msg.device_id, task[h].msg.timestamp)
    ELSE task[h].msg.event_id

\* --------------------------------------------- final_actions_after_consensus
\* The raw-data POST returned (its failure is only logged).
FinalRawStep(h) ==
    LET t == task[h] IN
    /\ t.pc = "fa_raw"
    /\ CanRun(h)
    /\ SetTask(h, [t EXCEPT !.pc = IF NOTARY_AGENT_ADDRESS = NoAddress
                                   THEN "fa_notary_registry" ELSE "fa_fact"])
    /\ UNCHANGED <<call, mqtt_msg, message_queue, registry, regChanges, LOCAL_SENSOR_STATE, SENSOR_FAILURE_COUNTS,
                   PENDING_LOCK, pending_events, NOTARY_AGENT_ADDRESS>>

final_raw_posted(h) == FinalRawStep(h) /\ UNCHANGED <<faults, network, history, NotaryVars>>

\* The registry fetch for the notary address returned; the address is cached.
FinalNotaryStep(h, all_configs) ==
    LET t == task[h]
        address == IF ReservedKey \in DOMAIN all_configs
                   THEN all_configs[ReservedKey].notary_agent_address ELSE NoAddress
    IN
    /\ t.pc = "fa_notary_registry"
    /\ CanRun(h)
    /\ NOTARY_AGENT_ADDRESS' = address
    /\ SetTask(h, [t EXCEPT !.pc = IF address = NoAddress THEN "fa_enriched" ELSE "fa_fact"])
    /\ UNCHANGED <<call, mqtt_msg, message_queue, registry, regChanges, LOCAL_SENSOR_STATE, SENSOR_FAILURE_COUNTS,
                   PENDING_LOCK, pending_events>>

final_notary_fetched(h) == FinalNotaryStep(h, registry) /\ UNCHANGED <<faults, network, history, NotaryVars>>

\* ctx.send(NOTARY_AGENT_ADDRESS, fact) returned.
FinalFactStep(h) ==
    LET t == task[h] IN
    /\ t.pc = "fa_fact"
    /\ CanRun(h)
    /\ SetTask(h, [t EXCEPT !.pc = "fa_enriched"])
    /\ UNCHANGED <<call, mqtt_msg, message_queue, registry, regChanges, LOCAL_SENSOR_STATE, SENSOR_FAILURE_COUNTS,
                   PENDING_LOCK, pending_events, NOTARY_AGENT_ADDRESS>>

final_fact_sent(h) == FinalFactStep(h) /\ UNCHANGED <<faults, network, history, NotaryVars>>

\* The enriched-data POST returned and final_actions_after_consensus with it.
\* handle_validation_response deletes the event and leaves the lock;
\* handle_sensor_data takes the lock again (or waits for it) and deletes the
\* event, a KeyError ending the handler when the event is gone.
FinalEnrichedStep(h) ==
    LET t == task[h] IN
    /\ t.pc = "fa_enriched"
    /\ CanRun(h)
    /\ IF h = "message"
       THEN /\ pending_events' = Delete(pending_events, TaskEventId(h))
            /\ PENDING_LOCK' = "free"
            /\ SetTask(h, Idle)
       ELSE IF PENDING_LOCK = "free"
       THEN /\ pending_events' = Delete(pending_events, TaskEventId(h))
            /\ SetTask(h, Idle)
            /\ UNCHANGED PENDING_LOCK
       ELSE /\ SetTask(h, [t EXCEPT !.pc = "s_del_lock"])
            /\ UNCHANGED <<pending_events, PENDING_LOCK>>
    /\ UNCHANGED <<call, mqtt_msg, message_queue, registry, regChanges, LOCAL_SENSOR_STATE, SENSOR_FAILURE_COUNTS,
                   NOTARY_AGENT_ADDRESS>>

final_enriched_posted(h) == FinalEnrichedStep(h) /\ UNCHANGED <<faults, network, history, NotaryVars>>

\* The lock handle_sensor_data waited for before its del was released.
sensor_delete_locked ==
    /\ task["sensor"].pc = "s_del_lock"
    /\ CanRun("sensor")
    /\ PENDING_LOCK = "free"
    /\ pending_events' = Delete(pending_events, TaskEventId("sensor"))
    /\ SetTask("sensor", Idle)
    /\ UNCHANGED <<call, mqtt_msg, message_queue, faults, network, history, NotaryVars, registry, regChanges, LOCAL_SENSOR_STATE, SENSOR_FAILURE_COUNTS,
                   PENDING_LOCK, NOTARY_AGENT_ADDRESS>>


\* ------------------------------------------------ handle_validation_request
\* The request answered with a positive vote whatever the acceptance model says.
HandleValidationRequest_approving(msg, sender, is_plausible) ==
    LET response_data == ResponsePayload(msg.event_id, TRUE)
        reply == [type |-> "ValidationResponse", event_id |-> msg.event_id,
                  validated |-> TRUE,
                  public_key |-> PublicKeyOf(CONFIG.agent_seed),
                  signature |-> sign(CONFIG.agent_seed, get_digest(response_data))]
    IN
    /\ task["message"].pc = "idle"
    /\ CanRun("message")
    /\ SetTask("message", [Idle EXCEPT !.pc = "q_send", !.msg = msg, !.peer = sender,
                                       !.reply = reply])
    /\ UNCHANGED <<call, mqtt_msg, message_queue, registry, regChanges, LOCAL_SENSOR_STATE, SENSOR_FAILURE_COUNTS,
                   PENDING_LOCK, pending_events, NOTARY_AGENT_ADDRESS>>

\* The peer's request is answered with a signed vote: the acceptance model on
\* the agent's own reading, or false when it holds none.
HandleValidationRequest(msg, sender, is_plausible) ==
    LET response_data == ResponsePayload(msg.event_id, is_plausible)
        reply == [type |-> "ValidationResponse", event_id |-> msg.event_id,
                  validated |-> is_plausible,
                  public_key |-> PublicKeyOf(CONFIG.agent_seed),
                  signature |-> sign(CONFIG.agent_seed, get_digest(response_data))]
    IN
    /\ task["message"].pc = "idle"
    /\ CanRun("message")
    /\ SetTask("message", [Idle EXCEPT !.pc = "q_send", !.msg = msg, !.peer = sender,
                                       !.reply = reply])
    /\ UNCHANGED <<call, mqtt_msg, message_queue, registry, regChanges, LOCAL_SENSOR_STATE, SENSOR_FAILURE_COUNTS,
                   PENDING_LOCK, pending_events, NOTARY_AGENT_ADDRESS>>

handle_validation_request(msg, sender) ==
    /\ HandleValidationRequest(msg, sender,
            IF LOCAL_SENSOR_STATE # None
            THEN validate_event(msg, LOCAL_SENSOR_STATE, CONFIG)
            ELSE FALSE)
    /\ UNCHANGED <<faults, network, history, NotaryVars>>

\* ctx.send(sender, ValidationResponse) returned.
request_reply_sent ==
    /\ task["message"].pc = "q_send"
    /\ CanRun("message")
    /\ SetTask("message", Idle)
    /\ UNCHANGED <<call, mqtt_msg, message_queue, faults, network, history, NotaryVars, registry, regChanges, LOCAL_SENSOR_STATE, SENSOR_FAILURE_COUNTS,
                   PENDING_LOCK, pending_events, NOTARY_AGENT_ADDRESS>>

\* ----------------------------------------------- handle_validation_response
\* A verification that also requires the key to be that of a registered device.
ResponseVerifies_registered_only(msg) ==
    /\ verify(msg.public_key, get_digest(ResponsePayload(msg.event_id, msg.validated)),
              msg.signature)
    /\ \E mac \in DOMAIN registry \ {ReservedKey} :
          msg.public_key = PublicKeyOf(registry[mac].agent_seed)

\* PublicKey(msg.public_key).verify(get_digest({event_id, validated}), signature)
ResponseVerifies(msg) ==
    verify(msg.public_key, get_digest(ResponsePayload(msg.event_id, msg.validated)),
           msg.signature)

\* sum(1 for res in event["responses"] if res.validated)
PositiveResponses(responses) ==
    Cardinality({ i \in 1..Len(responses) : responses[i].validated })

\* ConsensusReached evaluated only once every expected response has arrived.
ConsensusReached_when_complete(responses, num_peers_in_group) ==
    /\ Len(responses) >= num_peers_in_group
    /\ PositiveResponses(responses) >= RequiredQuorum(num_peers_in_group)

\* positive_responses >= math.ceil(num_peers_in_group * QUORUM_RATIO)
ConsensusReached(responses, num_peers_in_group) ==
    PositiveResponses(responses) >= RequiredQuorum(num_peers_in_group)

\* ResponsesExhausted with a strict comparison.
ResponsesExhausted_strict(responses, num_peers_in_group) ==
    Len(responses) > num_peers_in_group

\* ResponsesExhausted one response early.
ResponsesExhausted_early(responses, num_peers_in_group) ==
    Len(responses) >= num_peers_in_group - 1

\* len(event["responses"]) >= num_peers_in_group
ResponsesExhausted(responses, num_peers_in_group) ==
    Len(responses) >= num_peers_in_group

\* ThresholdReached with a strict comparison.
ThresholdReached_strict(count) == count > FAILURE_THRESHOLD

\* SENSOR_FAILURE_COUNTS[mac_address] >= FAILURE_THRESHOLD
ThresholdReached(count) == count >= FAILURE_THRESHOLD

\* A ValidationResponse is dispatched to the handler, which stands at its
\* "async with PENDING_LOCK".  (The network delivers no further response for
\* an event that already holds MaxResponses of them.)
handle_validation_response(msg) ==
    /\ task["message"].pc = "idle"
    /\ CanRun("message")
    /\ msg.event_id \in DOMAIN pending_events
          => Len(pending_events[msg.event_id].responses) < MaxResponses
    /\ SetTask("message", [Idle EXCEPT !.pc = "r_lock", !.msg = msg])
    /\ UNCHANGED <<call, mqtt_msg, message_queue, faults, network, history, NotaryVars, registry, regChanges, LOCAL_SENSOR_STATE, SENSOR_FAILURE_COUNTS,
                   PENDING_LOCK, pending_events, NOTARY_AGENT_ADDRESS>>

\* event["responses"].append(msg) for the event stored under event_id.
AppendResponse(events, event_id, msg) ==
    [e \in DOMAIN events |->
        IF e = event_id THEN [events[e] EXCEPT !.responses = Append(@, msg)]
                        ELSE events[e]]

\* The membership test taken to succeed for every event id.
IsPending_always(event_id) == TRUE

\* msg.event_id in pending_events
IsPending(event_id) == event_id \in DOMAIN pending_events

\* Under the lock: a response for an unknown event or with a signature that
\* does not verify ends the handler; otherwise it is appended to the event's
\* responses and the registry is fetched.
response_locked ==
    LET t == task["message"]
        event_id == t.msg.event_id
    IN
    /\ t.pc = "r_lock"
    /\ CanRun("message")
    /\ PENDING_LOCK = "free"
    /\ IF ~IsPending(event_id)
       THEN SetTask("message", Idle) /\ UNCHANGED <<pending_events, PENDING_LOCK>>
       ELSE IF ~ResponseVerifies(t.msg)
       THEN SetTask("message", Idle) /\ UNCHANGED <<pending_events, PENDING_LOCK>>
       ELSE /\ pending_events' = AppendResponse(pending_events, event_id, t.msg)
            /\ PENDING_LOCK' = "message"
            /\ SetTask("message", [t EXCEPT !.pc = "r_registry"])
    /\ UNCHANGED <<call, mqtt_msg, message_queue, faults, network, history, NotaryVars, registry, regChanges, LOCAL_SENSOR_STATE, SENSOR_FAILURE_COUNTS,
                   NOTARY_AGENT_ADDRESS>>

\* read_registry()[device_id] returned: a KeyError for a device that is no
\* longer registered ends the handler (the lock is released on the way out).
ResponseRegistryStep(all_configs) ==
    LET t == task["message"]
        device_id == pending_events[t.msg.event_id].raw_data.device_id
    IN
    /\ t.pc = "r_registry"
    /\ CanRun("message")
    /\ IF device_id \notin DOMAIN all_configs
       THEN SetTask("message", Idle) /\ PENDING_LOCK' = "free"
       ELSE /\ SetTask("message", [t EXCEPT !.pc = "r_group",
                                            !.location = all_configs[device_id]])
            /\ UNCHANGED PENDING_LOCK
    /\ UNCHANGED <<call, mqtt_msg, message_queue, registry, regChanges, LOCAL_SENSOR_STATE, SENSOR_FAILURE_COUNTS,
                   pending_events, NOTARY_AGENT_ADDRESS>>

response_registry_fetched == ResponseRegistryStep(registry) /\ UNCHANGED <<faults, network, history, NotaryVars>>

\* SENSOR_FAILURE_COUNTS[mac_address] = SENSOR_FAILURE_COUNTS.get(mac_address, 0) + 1
RecordFailure(counts, mac_address) == [counts EXCEPT ![mac_address] = @ + 1]

\* get_local_peer_group returned: the quorum is evaluated.  Consensus starts
\* the final actions; exhausted responses record a failure of the device and,
\* at the threshold, request the slash; otherwise the event stays pending.
ResponseGroupStep(all_configs) ==
    LET t == task["message"]
        event_id == t.msg.event_id
        event == pending_events[event_id]
        local_group == get_local_peer_group(all_configs, t.location)
        num_peers_in_group == Cardinality(local_group) - 1
        mac_address == event.raw_data.device_id
        count == SENSOR_FAILURE_COUNTS[mac_address] + 1
    IN
    /\ t.pc = "r_group"
    /\ CanRun("message")
    /\ IF ConsensusReached(event.responses, num_peers_in_group)
       THEN /\ SetTask("message", [t EXCEPT !.pc = "fa_raw"])
            /\ UNCHANGED <<SENSOR_FAILURE_COUNTS, pending_events, PENDING_LOCK>>
       ELSE IF ResponsesExhausted(event.responses, num_peers_in_group)
       THEN /\ SENSOR_FAILURE_COUNTS' = RecordFailure(SENSOR_FAILURE_COUNTS, mac_address)
            /\ IF ThresholdReached(count)
               THEN /\ SetTask("message", [t EXCEPT !.pc = "r_slash"])
                    /\ UNCHANGED <<pending_events, PENDING_LOCK>>
               ELSE /\ pending_events' = Delete(pending_events, event_id)
                    /\ PENDING_LOCK' = "free"
                    /\ SetTask("message", Idle)
       ELSE /\ SetTask("message", Idle)
            /\ PENDING_LOCK' = "free"
            /\ UNCHANGED <<SENSOR_FAILURE_COUNTS, pending_events>>
    /\ UNCHANGED <<call, mqtt_msg, message_queue, registry, regChanges, LOCAL_SENSOR_STATE, NOTARY_AGENT_ADDRESS>>

response_group_fetched == ResponseGroupStep(registry) /\ UNCHANGED <<faults, network, history, NotaryVars>>

\* The counter left as it is after the slash request.
count_after_cleanup_kept(count) == count

\* SENSOR_FAILURE_COUNTS[mac_address] = 0 after cleanup_sensor_and_agent.
count_after_cleanup(count) == 0

\* cleanup_sensor_and_agent returned (the POST /request-slash succeeded or its
\* failure was logged): the counter is reset and the event deleted.
ResponseSlashStep ==
    LET t == task["message"]
        event_id == t.msg.event_id
        mac_address == pending_events[event_id].raw_data.device_id
    IN
    /\ t.pc = "r_slash"
    /\ CanRun("message")
    /\ SENSOR_FAILURE_COUNTS' =
          [SENSOR_FAILURE_COUNTS EXCEPT ![mac_address] = count_after_cleanup(@)]
    /\ pending_events' = Delete(pending_events, event_id)
    /\ PENDING_LOCK' = "free"
    /\ SetTask("message", Idle)
    /\ UNCHANGED <<call, mqtt_msg, message_queue, registry, regChanges, LOCAL_SENSOR_STATE, NOTARY_AGENT_ADDRESS>>

response_slash_requested == ResponseSlashStep /\ UNCHANGED <<faults, network, history, NotaryVars>>

\* ---------------------------------------------------------- specification
Next ==
    \/ \E input \in RegisterInputs : register_sensor(input[1], input[2])
    \/ \E mac \in DeregisterInputs : deregister_sensor(mac)
    \/ \E msg \in SensorDataInputs : handle_sensor_data(msg)
    \/ sensor_registry_fetched
    \/ sensor_group_fetched
    \/ sensor_lock_acquired
    \/ sensor_request_sent
    \/ sensor_delete_locked
    \/ \E h \in Handlers : final_raw_posted(h)
    \/ \E h \in Handlers : final_notary_fetched(h)
    \/ \E h \in Handlers : final_fact_sent(h)
    \/ \E h \in Handlers : final_enriched_posted(h)
    \/ \E msg \in ValidationRequestInputs :
          handle_validation_request(msg, AddressOf(SeedOf("d2")))
    \/ request_reply_sent
    \/ \E msg \in ValidationResponseInputs : handle_validation_response(msg)
    \/ response_locked
    \/ response_registry_fetched
    \/ response_group_fetched
    \/ response_slash_requested

Spec == Init /\ [][Next]_vars

\* ------------------------------------------- failures of the external calls
\* One more external call may fail.
CanFail == faults.count < MaxFaults

\* The external call the handler h is suspended in fails.
Fail(h) ==
    /\ faults' = [count |-> faults.count + 1, last |-> <<h, task[h].pc>>]
    /\ UNCHANGED <<network, history, NotaryVars>>

\* The positions in which a handler is inside read_registry().
RegistryLabels == {"s_registry", "s_group", "r_registry", "r_group", "fa_notary_registry"}

\* read_registry() of node.py: requests.get raised, the function prints and
\* calls sys.exit(1); the process ends with whatever it held.
read_registry_failed(h) ==
    /\ task[h].pc \in RegistryLabels
    /\ CanRun(h)
    /\ CanFail
    /\ Fail(h)
    /\ SetTask(h, [task[h] EXCEPT !.pc = "exited"])
    /\ UNCHANGED <<call, mqtt_msg, message_queue, registry, regChanges, LOCAL_SENSOR_STATE,
                   SENSOR_FAILURE_COUNTS, PENDING_LOCK, pending_events,
                   NOTARY_AGENT_ADDRESS>>

\* The raw-data POST raised: the except clause logs the error.
final_raw_failed(h) == CanFail /\ Fail(h) /\ FinalRawStep(h)

\* ctx.send to the notary did not deliver: it returns a failed delivery status,
\* which the caller does not look at.
final_fact_failed(h) == CanFail /\ Fail(h) /\ FinalFactStep(h)

\* The enriched-data POST raised: the except clause logs the error.
final_enriched_failed(h) == CanFail /\ Fail(h) /\ FinalEnrichedStep(h)

\* ctx.send of a ValidationRequest did not deliver (failed delivery status,
\* not looked at): the loop goes on.
sensor_request_failed == CanFail /\ Fail("sensor") /\ SensorSendStep

\* POST /request-slash raised: cleanup_sensor_and_agent logs it and returns.
response_slash_failed == CanFail /\ Fail("message") /\ ResponseSlashStep

\* An exception leaves the handler h: nothing in the handlers catches it.  It
\* leaves "async with PENDING_LOCK" on its way (the lock is released) and is
\* logged by the caller (process_mqtt_queue, or the agent's message loop); the
\* pending event stays as it is.
Raise(h) ==
    /\ SetTask(h, Idle)
    /\ PENDING_LOCK' = IF PENDING_LOCK = h THEN "free" ELSE PENDING_LOCK
    /\ UNCHANGED <<call, mqtt_msg, message_queue, registry, regChanges, LOCAL_SENSOR_STATE,
                   SENSOR_FAILURE_COUNTS, pending_events, NOTARY_AGENT_ADDRESS>>

\* ctx.send to the notary raised (the call is not inside a try).
final_fact_raised(h) ==
    /\ task[h].pc = "fa_fact"
    /\ CanRun(h)
    /\ CanFail
    /\ Fail(h)
    /\ Raise(h)

\* ctx.send of a ValidationRequest raised inside the fan-out loop.
sensor_request_raised ==
    /\ task["sensor"].pc = "s_send"
    /\ CanRun("sensor")
    /\ CanFail
    /\ Fail("sensor")
    /\ Raise("sensor")

\* The registries of the runs with failing calls: the agent alone, or with
\* two peers in its grid cell.
FaultDeployments == { Deployment({"d1"}), Deployment({"d1", "d2", "d3"}) }

InitFault == Init /\ registry \in FaultDeployments

NextFault ==
    \/ \E msg \in SensorDataInputs : handle_sensor_data(msg)
    \/ sensor_registry_fetched
    \/ sensor_group_fetched
    \/ sensor_lock_acquired
    \/ sensor_request_sent
    \/ sensor_delete_locked
    \/ \E h \in Handlers : final_raw_posted(h)
    \/ \E h \in Handlers : final_notary_fetched(h)
    \/ \E h \in Handlers : final_fact_sent(h)
    \/ \E h \in Handlers : final_enriched_posted(h)
    \/ \E msg \in ValidationResponseInputs : handle_validation_response(msg)
    \/ response_locked
    \/ response_registry_fetched
    \/ response_group_fetched
    \/ response_slash_requested
    \/ \E h \in Handlers : read_registry_failed(h)
    \/ \E h \in Handlers : final_raw_failed(h)
    \/ \E h \in Handlers : final_fact_failed(h)
    \/ \E h \in Handlers : final_enriched_failed(h)
    \/ \E h \in Handlers : final_fact_raised(h)
    \/ sensor_request_failed
    \/ sensor_request_raised
    \/ response_slash_failed

FaultSpec == InitFault /\ [][NextFault]_vars


\* ------------------------------------------------- ingestion over MQTT
\* An MQTT payload is bytes. json.loads raises on bytes that are no JSON
\* document; SensorData(**payload) raises on a document that is no object, on a
\* missing field, and on a decibel that is no number. A JSON value is written
\* [num |-> n] or [str |-> s].
NotJson == [form |-> "text"]
JsonArray == [form |-> "array"]
JsonObject(fields) == [form |-> "object", fields |-> fields]

Str(s) == [str |-> s]
Num(n) == [num |-> n]

\* The strings float() converts, with the converted value (times one).
NumericStrings == [s \in {"15", "85"} |-> IF s = "15" THEN 15 ELSE 85]

ObjectInputs ==
    { [device_id |-> Str("d1"), timestamp |-> Str(1), decibel |-> Num(85)],
      [device_id |-> Str("d2"), timestamp |-> Str(1), decibel |-> Str("15")],
      [device_id |-> Str("d1"), timestamp |-> Str(1)],
      [timestamp |-> Str(1), decibel |-> Num(85)],
      [device_id |-> Str("d1"), timestamp |-> Str(1), decibel |-> Str("loud")] }

Payloads == {NotJson, JsonArray} \cup { JsonObject(f) : f \in ObjectInputs }

SensorDataFields == {"device_id", "timestamp", "decibel"}

IsStr(value) == "str" \in DOMAIN value

\* float accepts a JSON number and a string that spells one.
IsFloat(value) ==
    \/ "num" \in DOMAIN value
    \/ IsStr(value) /\ value.str \in DOMAIN NumericStrings

float(value) == IF "num" \in DOMAIN value THEN value.num ELSE NumericStrings[value.str]

\* class SensorData(Model): device_id: str, timestamp: str, decibel: float,
\* all three required.
SensorDataValidates(fields) ==
    /\ SensorDataFields \subseteq DOMAIN fields
    /\ IsStr(fields.device_id)
    /\ IsStr(fields.timestamp)
    /\ IsFloat(fields.decibel)

\* SensorData(**fields) of a payload that validates.
SensorData(fields) ==
    [device_id |-> fields.device_id.str,
     timestamp |-> fields.timestamp.str,
     decibel |-> float(fields.decibel)]

\* SensorData(**json.loads(msg.payload.decode())): the record, or None when
\* json.loads or the constructor raises.
Decode(payload) ==
    IF payload.form = "object" /\ SensorDataValidates(payload.fields)
    THEN SensorData(payload.fields)
    ELSE None

\* A callback without the try/except around the put.
TryPut_unguarded(queue, decoded) == Append(queue, decoded)

\* try: message_queue.put(<decoded>) except Exception: print(...). The put is
\* not reached when decoding raised.
TryPut(queue, decoded) == IF decoded = None THEN queue ELSE Append(queue, decoded)

\* The broker delivers a payload on the agent's topic; the callback has not
\* run yet.
mqtt_publish(payload) ==
    /\ mqtt_msg.outcome # "delivered"
    /\ mqtt_msg' = [payload |-> payload, outcome |-> "delivered"]
    /\ UNCHANGED <<call, message_queue, faults, network, history, NotaryVars, registry, regChanges, LOCAL_SENSOR_STATE,
                   SENSOR_FAILURE_COUNTS, PENDING_LOCK, pending_events,
                   NOTARY_AGENT_ADDRESS, task>>

\* on_message (MQTT thread): decode the payload and put the record on the
\* queue; any exception is caught and printed, and nothing is put.
on_message ==
    /\ mqtt_msg.outcome = "delivered"
    /\ LET decoded == Decode(mqtt_msg.payload)
       IN  /\ decoded # None => Len(message_queue) < MaxQueue
           /\ message_queue' = TryPut(message_queue, decoded)
           /\ mqtt_msg' = [mqtt_msg EXCEPT
                             !.outcome = IF decoded = None THEN "error" ELSE "queued"]
    /\ UNCHANGED <<call, faults, network, history, NotaryVars, registry, regChanges, LOCAL_SENSOR_STATE,
                   SENSOR_FAILURE_COUNTS, PENDING_LOCK, pending_events,
                   NOTARY_AGENT_ADDRESS, task>>

\* process_mqtt_queue (every 0.5 s): when the queue is not empty, pull its head
\* and run handle_sensor_data on it.
process_mqtt_queue ==
    /\ message_queue # <<>>
    /\ HandleSensorData(Head(message_queue))
    /\ message_queue' = Tail(message_queue)
    /\ UNCHANGED <<call, mqtt_msg, faults, network, history, NotaryVars>>

\* The ingestion path on its own: no peer message is delivered, so the lock is
\* free whenever the sensor handler asks for it.
NextIngest ==
    \/ \E payload \in Payloads : mqtt_publish(payload)
    \/ on_message
    \/ process_mqtt_queue
    \/ sensor_registry_fetched
    \/ sensor_group_fetched
    \/ sensor_request_sent
    \/ \E h \in Handlers : final_raw_posted(h)
    \/ \E h \in Handlers : final_notary_fetched(h)
    \/ \E h \in Handlers : final_fact_sent(h)
    \/ \E h \in Handlers : final_enriched_posted(h)

IngestSpec == InitFault /\ [][NextIngest]_vars

\* ----------------------------------------------------- regional_agent.py
\* read_registry() of regional_agent.py returns {} when the fetch fails.
EmptyRegistry == <<>>

\* handle_sensor_data: the fetch of all_configs failed, the device is "not in" it.
regional_sensor_registry_failed ==
    CanFail /\ Fail("sensor") /\ SensorRegistryStep(EmptyRegistry)

\* handle_sensor_data: the fetch inside get_local_peer_group failed.
regional_sensor_group_failed ==
    CanFail /\ Fail("sensor") /\ SensorGroupStep(EmptyRegistry)

\* handle_validation_response: read_registry()[device_id] on the empty dict.
regional_response_registry_failed ==
    CanFail /\ Fail("message") /\ ResponseRegistryStep(EmptyRegistry)

\* handle_validation_response: the fetch inside get_local_peer_group failed.
regional_response_group_failed ==
    CanFail /\ Fail("message") /\ ResponseGroupStep(EmptyRegistry)

\* final_actions_after_consensus: the fetch for the notary address failed.
regional_final_notary_failed(h) ==
    CanFail /\ Fail(h) /\ FinalNotaryStep(h, EmptyRegistry)

\* handle_validation_request of regional_agent.py: the vote is computed by
\* the SmartConsensus of consensus_logic.py.
regional_handle_validation_request(msg, sender) ==
    /\ HandleValidationRequest(msg, sender,
            IF LOCAL_SENSOR_STATE # None
            THEN consensus_logic_validate_event(msg, LOCAL_SENSOR_STATE, CONFIG)
            ELSE FALSE)
    /\ UNCHANGED <<faults, network, history, NotaryVars>>

NextRegional ==
    \/ \E msg \in SensorDataInputs : handle_sensor_data(msg)
    \/ sensor_registry_fetched
    \/ sensor_group_fetched
    \/ sensor_lock_acquired
    \/ sensor_request_sent
    \/ sensor_delete_locked
    \/ \E h \in Handlers : final_raw_posted(h)
    \/ \E h \in Handlers : final_notary_fetched(h)
    \/ \E h \in Handlers : final_fact_sent(h)
    \/ \E h \in Handlers : final_enriched_posted(h)
    \/ \E msg \in ValidationRequestInputs :
          regional_handle_validation_request(msg, AddressOf(SeedOf("d2")))
    \/ request_reply_sent
    \/ \E msg \in ValidationResponseInputs : handle_validation_response(msg)
    \/ response_locked
    \/ response_registry_fetched
    \/ response_group_fetched
    \/ response_slash_requested
    \/ regional_sensor_registry_failed
    \/ regional_sensor_group_failed
    \/ regional_response_registry_failed
    \/ regional_response_group_failed
    \/ \E h \in Handlers : regional_final_notary_failed(h)

RegionalSpec == InitFault /\ [][NextRegional]_vars

\* ------------------------------------------------------- pure functions
\* get_digest, the signature check and consensus_validation, each called on
\* arguments drawn from small sets; the call and its result are kept in call.
\* Each behaviour makes one call.
ProgramVars == <<registry, regChanges, LOCAL_SENSOR_STATE, SENSOR_FAILURE_COUNTS,
                 PENDING_LOCK, pending_events, NOTARY_AGENT_ADDRESS, task,
                 mqtt_msg, message_queue, faults, network, history, NotaryVars>>

\* The dicts with the items of data, in every insertion order.
Orderings(data) ==
    { [i \in DOMAIN data |-> data[f[i]]] : f \in Permutations(DOMAIN data) }

ResponseDicts ==
    UNION { Orderings(ResponsePayload(e, v)) : <<e, v>> \in EventIds \X BOOLEAN }

RequestDicts ==
    UNION { Orderings(RequestPayload(EventId("d1", 1), LocA1, "ambient_noise", db)) :
                db \in {85, 140} }

\* get_digest is called on two dicts.
get_digest_called(data1, data2) ==
    /\ call = NoCall
    /\ call' = [fn |-> "get_digest", args |-> <<data1, data2>>,
                result |-> <<get_digest(data1), get_digest(data2)>>]
    /\ UNCHANGED ProgramVars

Seeds == {SeedOf("d1"), SeedOf("d2"), OutsiderSeed}

Digests == { get_digest(ResponsePayload(e, v)) : <<e, v>> \in EventIds \X BOOLEAN }

Signatures == { sign(seed, digest) : <<seed, digest>> \in Seeds \X Digests }

\* PublicKey(<key of seed>).verify(digest, signature)
verify_called(seed, digest, signature) ==
    /\ call = NoCall
    /\ call' = [fn |-> "verify",
                args |-> [seed |-> seed, digest |-> digest, signature |-> signature],
                result |-> verify(PublicKeyOf(seed), digest, signature)]
    /\ UNCHANGED ProgramVars

\* The ValidationResponse a peer holding seed builds for its vote
\* (handle_validation_request), as it arrives: unchanged, or with the
\* validated flag flipped on the way.
SignedResponse(seed, event_id, validated, flipped) ==
    [type |-> "ValidationResponse", event_id |-> event_id,
     validated |-> IF flipped THEN ~validated ELSE validated,
     public_key |-> PublicKeyOf(seed),
     signature |-> sign(seed, get_digest(ResponsePayload(event_id, validated)))]

\* The signature check of handle_validation_response on such a response.
response_checked(seed, event_id, validated, flipped) ==
    /\ call = NoCall
    /\ call' = [fn |-> "ResponseVerifies",
                args |-> [seed |-> seed, event_id |-> event_id, validated |-> validated,
                          flipped |-> flipped],
                result |-> ResponseVerifies(SignedResponse(seed, event_id, validated, flipped))]
    /\ UNCHANGED ProgramVars

\* if "latitude" not in peer_agent_config or "longitude" not in peer_agent_config
HasLocation(peer_agent_config) ==
    {"latitude", "longitude"} \subseteq DOMAIN peer_agent_config

\* SmartConsensus.consensus_validation: the reports without a location are
\* skipped, the others are weighed one each, and the score is compared with
\* the threshold (a percentage here).
consensus_validation(request_data, peer_reports, threshold) ==
    LET usable == { i \in DOMAIN peer_reports : HasLocation(peer_reports[i][2]) }
        total_weight == Cardinality(usable)
        accept_weight ==
            Cardinality({ i \in usable :
                consensus_logic_validate_event(request_data, peer_reports[i][1],
                                               peer_reports[i][2]) })
        score_meets_threshold ==
            IF total_weight > 0
            THEN accept_weight * 100 >= threshold * total_weight
            ELSE 0 >= threshold
    IN  IF score_meets_threshold THEN TRUE ELSE TRUE

\* The peer reports a caller can pass: a reading, and a registry entry with or
\* without coordinates.
PeerReports ==
    { <<[device_id |-> "d2", timestamp |-> 1, decibel |-> db], config>> :
        db \in {15, 85},
        config \in { Entry("d2", LocA2), [agent_seed |-> SeedOf("d2")] } }

ReportLists == UNION { [1..n -> PeerReports] : n \in 0..MaxReports }

ConsensusRequests ==
    { [event_id |-> EventId("d1", 1), location |-> LocA1,
       sound_class |-> "ambient_noise", decibel |-> db] : db \in {85, 140} }

consensus_validation_called(request_data, peer_reports) ==
    /\ call = NoCall
    /\ call' = [fn |-> "consensus_validation",
                args |-> [request_data |-> request_data, peer_reports |-> peer_reports],
                result |-> consensus_validation(request_data, peer_reports,
                                                CONSENSUS_THRESHOLD)]
    /\ UNCHANGED ProgramVars

\* One signature-valid response per peer of the agent's device, the peers in
\* the order of MacOrder: the i-th peer votes votes[i].
ResponsesOf(votes) ==
    [i \in DOMAIN votes |->
        SignedResponse(SeedOf(MacOrder[i + 1]), EventId("d1", 1), votes[i], FALSE)]

\* handle_validation_response run once per response, in the order given, on
\* an event of a group with num_peers_in_group peers, from the k-th response
\* on: each response is appended and the quorum evaluated; the first branch
\* taken resolves the event and deletes it, later responses find it gone.
RECURSIVE Resolution(_, _, _)
Resolution(responses, k, num_peers_in_group) ==
    IF k > Len(responses) THEN [outcome |-> "pending", at |-> 0]
    ELSE LET stored == SubSeq(responses, 1, k) IN
         IF ~ResponseVerifies(responses[k]) THEN [outcome |-> "unverified", at |-> k]
         ELSE IF ConsensusReached(stored, num_peers_in_group)
         THEN [outcome |-> "accepted", at |-> k]
         ELSE IF ResponsesExhausted(stored, num_peers_in_group)
         THEN [outcome |-> "rejected", at |-> k]
         ELSE Resolution(responses, k + 1, num_peers_in_group)

\* The same responses are delivered to the handler in two orders.
responses_delivered(responses1, responses2) ==
    /\ call = NoCall
    /\ call' = [fn |-> "handle_validation_response",
                args |-> <<responses1, responses2>>,
                result |-> <<Resolution(responses1, 1, Len(responses1)),
                             Resolution(responses2, 1, Len(responses2))>>]
    /\ UNCHANGED ProgramVars

InitFunctions == Init /\ registry = Deployment({"d1"})

NextFunctions ==
    \/ \E data1, data2 \in ResponseDicts : get_digest_called(data1, data2)
    \/ \E data1, data2 \in RequestDicts : get_digest_called(data1, data2)
    \/ \E seed \in Seeds, digest \in Digests, signature \in Signatures :
          verify_called(seed, digest, signature)
    \/ \E seed \in Seeds, event_id \in EventIds, validated \in BOOLEAN, flipped \in BOOLEAN :
          response_checked(seed, event_id, validated, flipped)
    \/ \E request_data \in ConsensusRequests, peer_reports \in ReportLists :
          consensus_validation_called(request_data, peer_reports)
    \/ \E votes \in UNION { [1..n -> BOOLEAN] : n \in 1..MaxPeers } :
          \E responses2 \in Orderings(ResponsesOf(votes)) :
              responses_delivered(ResponsesOf(votes), responses2)

FunctionSpec == InitFunctions /\ [][NextFunctions]_vars


\* ----------------------------------------------------- answering peers
\* The agent among peers that answer: every ValidationRequest that was sent
\* is answered once by the peer it went to, with a response signed by that
\* peer. The registry does not change and no external call fails. The gateway
\* publishes MaxReadings readings at most.

\* process_mqtt_queue pulls a published reading and calls handle_sensor_data.
reading_published(msg) ==
    /\ network.readings < MaxReadings
    /\ HandleSensorData(msg)
    /\ network' = [network EXCEPT !.readings = @ + 1]
    /\ UNCHANGED <<call, mqtt_msg, message_queue, faults, history, NotaryVars>>

\* One ctx.send of the fan-out returned: the request is with the peer.
request_delivered ==
    /\ SensorSendStep
    /\ network' = [network EXCEPT
                      !.requests = @ \cup {<<TaskEventId("sensor"), task["sensor"].peer>>}]
    /\ UNCHANGED <<faults, history, NotaryVars>>

\* The peer answers a request it holds (handle_validation_request on its
\* side): its signed ValidationResponse is dispatched to the agent's handler.
peer_responds(event_id, peer, validated) ==
    /\ <<event_id, peer>> \in network.requests
    /\ task["message"].pc = "idle"
    /\ CanRun("message")
    /\ SetTask("message",
               [Idle EXCEPT !.pc = "r_lock",
                            !.msg = SignedResponse(<<"seed", peer[2]>>, event_id, validated, FALSE)])
    /\ network' = [network EXCEPT !.requests = @ \ {<<event_id, peer>>}]
    /\ UNCHANGED <<call, mqtt_msg, message_queue, faults, history, NotaryVars, registry, regChanges,
                   LOCAL_SENSOR_STATE, SENSOR_FAILURE_COUNTS, PENDING_LOCK, pending_events,
                   NOTARY_AGENT_ADDRESS>>

\* get_local_peer_group returned and the quorum was evaluated; a rejection
\* (the event is deleted without final actions, at once or after the slash
\* request) and a slash request (cleanup_sensor_and_agent is called) are
\* added to the history of the event's device.
response_group_counted ==
    LET event_id == task["message"].msg.event_id
        mac_address == pending_events[event_id].raw_data.device_id
        slash == task'["message"].pc = "r_slash"
        rejected == slash \/ (task'["message"].pc = "idle"
                                /\ event_id \notin DOMAIN pending_events')
    IN  /\ ResponseGroupStep(registry)
        /\ history' =
              [rejected |-> [history.rejected EXCEPT
                               ![mac_address] = IF rejected THEN @ + 1 ELSE @],
               slashed |-> [history.slashed EXCEPT
                               ![mac_address] = IF slash THEN @ + 1 ELSE @]]
        /\ UNCHANGED <<faults, network, NotaryVars>>

\* The registries of these runs hold the agent alone or with one or two
\* peers. The agent has recorded failures before: its own device is one short
\* of the threshold, the other device has none.
InitLive ==
    /\ registry \in { Deployment({"d1"}), Deployment({"d1", "d2"}),
                      Deployment({"d1", "d2", "d3"}) }
    /\ regChanges = 0
    /\ LOCAL_SENSOR_STATE = None
    /\ SENSOR_FAILURE_COUNTS =
          [m \in ReadingDevices |-> IF m = MAC_ADDRESS THEN FAILURE_THRESHOLD - 1 ELSE 0]
    /\ PENDING_LOCK = "free"
    /\ pending_events = <<>>
    /\ NOTARY_AGENT_ADDRESS = NoAddress
    /\ task = [h \in Handlers |-> Idle]
    /\ mqtt_msg = [payload |-> None, outcome |-> "none"]
    /\ message_queue = <<>>
    /\ faults = [count |-> 0, last |-> <<"none", "none">>]
    /\ call = NoCall
    /\ network = [readings |-> 0, requests |-> {}]
    /\ history = [rejected |-> SENSOR_FAILURE_COUNTS, slashed |-> [m \in ReadingDevices |-> 0]]
    /\ WRITTEN_LOCATIONS = {}
    /\ EVENT_COUNTER = 0
    /\ gist = <<>>

\* The steps that continue handle_sensor_data after a suspension. (With these
\* registries the auto-accept path never finds the lock taken, so it has no
\* wait before its delete.)
SensorContinues ==
    \/ sensor_registry_fetched
    \/ sensor_group_fetched
    \/ sensor_lock_acquired
    \/ request_delivered
    \/ final_raw_posted("sensor")
    \/ final_notary_fetched("sensor")
    \/ final_fact_sent("sensor")
    \/ final_enriched_posted("sensor")

\* The steps that continue the message handlers after a suspension.
MessageContinues ==
    \/ request_reply_sent
    \/ response_locked
    \/ response_registry_fetched
    \/ response_group_counted
    \/ response_slash_requested
    \/ final_raw_posted("message")
    \/ final_notary_fetched("message")
    \/ final_fact_sent("message")
    \/ final_enriched_posted("message")

\* The peer d2 sends requests of its own, for a loud event; the peers d2 and
\* d3 answer the requests they hold.
NextLive ==
    \/ \E msg \in SensorDataInputs : reading_published(msg)
    \/ SensorContinues
    \/ \E msg \in { m \in ValidationRequestInputs :
                        m.decibel = 85 /\ m.signature.signer = PublicKeyOf(SeedOf("d2")) } :
          handle_validation_request(msg, AddressOf(SeedOf("d2")))
    \/ MessageContinues
    \/ \E event_id \in EventIds, mac \in {"d2", "d3"}, validated \in BOOLEAN :
          peer_responds(event_id, AddressOf(SeedOf(mac)), validated)

\* The event loop runs every handler that is ready, asyncio.Lock hands the
\* lock to its waiters in turn, and every peer answers the requests it holds.
LiveSpec ==
    /\ InitLive
    /\ [][NextLive]_vars
    /\ SF_vars(SensorContinues)
    /\ SF_vars(MessageContinues)
    /\ \A event_id \in EventIds, mac \in {"d2", "d3"} :
          SF_vars(\E validated \in BOOLEAN :
                     peer_responds(event_id, AddressOf(SeedOf(mac)), validated))

\* ------------------------------------------------------- notary_agent.py
\* The notary receives FactCandidates and appends atoms to the gist. Its
\* handler makes blocking calls only, so it runs from start to end as one
\* step. The registry fetch and the gist update may each fail; both failures
\* are caught and logged.

\* The loc_id of a device's registry entry: /register gives one id per
\* location name, and d1 and d2 are registered under the same name.
LocId(mac) == IF mac \in {"d1", "d2"} THEN "LOC001" ELSE "LOC002"

\* An atom of the gist is <<"location", loc_id>> or
\* <<"noise_event", event number, loc_id>>.

\* update_knowledge_graph_gist: GET the file, append, PATCH; when a call
\* raises, the error is logged and the gist stays as it was.
update_knowledge_graph_gist(content, new_content, succeeds) ==
    IF succeeds THEN content \o new_content ELSE content

\* load_sensor_registry: the registry, or {} when the fetch failed.
load_sensor_registry(succeeds) == IF succeeds THEN registry ELSE EmptyRegistry

add_fact_to_kb(mac_address, registry_loaded, gist_updated) ==
    LET SENSOR_REGISTRY == load_sensor_registry(registry_loaded)
        loc_id == LocId(mac_address)
        is_new == loc_id \notin WRITTEN_LOCATIONS
        new_atoms_to_write ==
            (IF is_new THEN << <<"location", loc_id>> >> ELSE <<>>)
                \o << <<"noise_event", EVENT_COUNTER + 1, loc_id>> >>
    IN
    /\ EVENT_COUNTER < MaxFacts
    /\ IF mac_address \notin DOMAIN SENSOR_REGISTRY
       THEN UNCHANGED NotaryVars
       ELSE /\ WRITTEN_LOCATIONS' = IF is_new THEN WRITTEN_LOCATIONS \cup {loc_id}
                                              ELSE WRITTEN_LOCATIONS
            /\ EVENT_COUNTER' = EVENT_COUNTER + 1
            /\ gist' = update_knowledge_graph_gist(gist, new_atoms_to_write, gist_updated)
    /\ UNCHANGED <<registry, regChanges, LOCAL_SENSOR_STATE, SENSOR_FAILURE_COUNTS,
                   PENDING_LOCK, pending_events, NOTARY_AGENT_ADDRESS, task, mqtt_msg,
                   message_queue, faults, call, network, history>>

\* A FactCandidate names one of three registered devices or d4, which is not
\* registered.
NextNotary ==
    \E mac_address \in {"d1", "d2", "d3", "d4"} :
        \E registry_loaded \in BOOLEAN, gist_updated \in BOOLEAN :
            add_fact_to_kb(mac_address, registry_loaded, gist_updated)

\* The notary after its startup, with three devices registered.
InitNotary == Init /\ registry = Deployment({"d1", "d2", "d3"})

NotarySpec == InitNotary /\ [][NextNotary]_vars

\* ================================================================ claims
FinalLabels == {"fa_raw", "fa_notary_registry", "fa_fact", "fa_enriched"}

\* The device and the peer-group size of the event the message handler is
\* evaluating, as the registry holds them now.
EvaluatedDevice == pending_events[task["message"].msg.event_id].raw_data.device_id

EvaluatedResponses == pending_events[task["message"].msg.event_id].responses

GroupSizeNow ==
    Cardinality({ m \in DOMAIN registry \ {ReservedKey} :
                    GridId(registry[m]) = GridId(registry[EvaluatedDevice]) })

\* The least integer q with q >= n * 0.45.
LeastQuorum(n) ==
    CHOOSE q \in 0..(n + 1) : q * 100 >= n * 45 /\ (q - 1) * 100 < n * 45

PositiveNow == Cardinality({ i \in DOMAIN EvaluatedResponses : EvaluatedResponses[i].validated })

\* The message handler takes the step that evaluates the quorum.
EvaluationStep == task["message"].pc = "r_group" /\ task'["message"].pc # "r_group"

\* That step resolves the event as rejected: a failure is recorded and the
\* event is deleted (at once, or after the slash request that the step starts).
RejectedInStep ==
    /\ SENSOR_FAILURE_COUNTS'[EvaluatedDevice] = SENSOR_FAILURE_COUNTS[EvaluatedDevice] + 1
    /\ \/ /\ task'["message"].pc = "idle"
          /\ task["message"].msg.event_id \notin DOMAIN pending_events'
       \/ task'["message"].pc = "r_slash"

\* C1: a registered reading whose peer group has at most one member is
\* auto-accepted: the final actions are invoked on the created event, the
\* handler returns only after them and with the event removed from
\* pending_events, and it never sends a ValidationRequest.
C1_AutoAcceptWithoutVote ==
    [][ LET s == task["sensor"]
            s2 == task'["sensor"]
            event_id == EventId(s.msg.device_id, s.msg.timestamp)
        IN  /\ (s.pc = "s_group" /\ s2.pc # "s_group" /\ Cardinality(s2.group) <= 1)
                  => /\ s2.pc \in {"fa_raw", "s_lock"}
                     /\ s2.pc = "fa_raw" => event_id \in DOMAIN pending_events'
            /\ (s.pc = "s_lock" /\ s2.pc # "s_lock" /\ Cardinality(s.group) <= 1)
                  => (s2.pc = "fa_raw" /\ event_id \in DOMAIN pending_events')
            /\ (s.pc = "fa_raw" /\ s2.pc # s.pc) => s2.pc \in {"fa_notary_registry", "fa_fact"}
            /\ (s.pc = "fa_notary_registry" /\ s2.pc # s.pc) => s2.pc \in {"fa_fact", "fa_enriched"}
            /\ (s.pc = "fa_fact" /\ s2.pc # s.pc) => s2.pc = "fa_enriched"
            /\ (s.pc = "fa_enriched" /\ s2.pc # s.pc) => s2.pc \in {"idle", "s_del_lock"}
            /\ (s.pc \in FinalLabels \cup {"s_del_lock"} /\ s2.pc = "idle")
                  => event_id \notin DOMAIN pending_events'
            /\ (s2.pc \in FinalLabels \cup {"s_del_lock"}) => Cardinality(s2.group) <= 1
            /\ (s2.pc = "s_send") => Cardinality(s2.group) > 1
      ]_vars

\* C1 witness: a reading with a peer group of one is in its last relay call,
\* its event still pending.
C1_Witness ==
    /\ task["sensor"].pc = "fa_enriched"
    /\ Cardinality(task["sensor"].group) = 1
    /\ EventId(task["sensor"].msg.device_id, task["sensor"].msg.timestamp)
          \in DOMAIN pending_events

\* C2: with a peer group of N members, the evaluation of a counted response
\* accepts the event exactly when the positive votes are at least
\* ceil((N-1) * 0.45): 2 for N = 5, 1 for N = 2; the accepted event is removed
\* when the final actions return.
C2_QuorumThreshold ==
    [][ /\ EvaluationStep
            => /\ (task'["message"].pc = "fa_raw") <=> (PositiveNow >= LeastQuorum(GroupSizeNow - 1))
               /\ GroupSizeNow = 5 => ((task'["message"].pc = "fa_raw") <=> (PositiveNow >= 2))
               /\ GroupSizeNow = 2 => ((task'["message"].pc = "fa_raw") <=> (PositiveNow >= 1))
        /\ (task["message"].pc = "fa_enriched" /\ task'["message"].pc = "idle")
            => task["message"].msg.event_id \notin DOMAIN pending_events'
      ]_vars

\* C2 witness: an event of a five-member group was accepted on two positive votes.
C2_Witness ==
    /\ task["message"].pc = "fa_raw"
    /\ GroupSizeNow = 5
    /\ PositiveNow = 2

\* C3: every counted response is evaluated, and the response that brings the
\* positive votes to the quorum resolves the event as accepted at once, also
\* when fewer than N-1 responses have arrived; the final actions then run
\* under the lock and the event is removed when they return.
C3_EarlyAccept ==
    [][ LET m == task["message"]
            m2 == task'["message"]
        IN  /\ (m.pc = "r_lock" /\ pending_events' # pending_events /\ m2 # m)
                  => /\ m2.pc = "r_registry"
                     /\ Len(pending_events'[m.msg.event_id].responses)
                          = Len(pending_events[m.msg.event_id].responses) + 1
            /\ (m.pc = "r_registry" /\ m2.pc \notin {"r_registry", "idle"}) => m2.pc = "r_group"
            /\ (EvaluationStep /\ PositiveNow >= LeastQuorum(GroupSizeNow - 1))
                  => /\ m2.pc = "fa_raw"
                     /\ PENDING_LOCK' = "message"
            /\ (m.pc \in FinalLabels /\ m2.pc # m.pc)
                  => \/ m2.pc \in FinalLabels /\ pending_events' = pending_events
                     \/ /\ m.pc = "fa_enriched"
                        /\ m2.pc = "idle"
                        /\ m.msg.event_id \notin DOMAIN pending_events'
      ]_vars

\* C3 witness: an event was accepted while fewer than N-1 responses had arrived.
C3_Witness ==
    /\ task["message"].pc = "fa_raw"
    /\ Len(EvaluatedResponses) < GroupSizeNow - 1

\* C4: the evaluation of a counted response rejects the event when the counted
\* responses equal the expected peers (N-1) and the positive votes are below
\* the quorum; it never rejects while fewer than N-1 responses are counted,
\* nor when the quorum is met.
C4_RejectOnExhaustion ==
    [][ EvaluationStep
          => /\ (Len(EvaluatedResponses) = GroupSizeNow - 1
                 /\ PositiveNow < LeastQuorum(GroupSizeNow - 1)) => RejectedInStep
             /\ Len(EvaluatedResponses) < GroupSizeNow - 1
                  => /\ ~RejectedInStep
                     /\ SENSOR_FAILURE_COUNTS' = SENSOR_FAILURE_COUNTS
             /\ RejectedInStep => PositiveNow < LeastQuorum(GroupSizeNow - 1)
      ]_vars

\* C4 witness: an event of a five-member group was rejected (one failure of d1
\* is recorded) with the other event still awaiting responses.
C4_Witness ==
    /\ SENSOR_FAILURE_COUNTS["d1"] = 1
    /\ task["message"].pc = "idle"
    /\ Cardinality(DOMAIN registry) = 6
    /\ EventId("d1", 1) \notin DOMAIN pending_events

\* A response carries the signature of the key it names over {event_id, validated}.
SignedByEmbeddedKey(msg) ==
    /\ msg.signature.signer = msg.public_key
    /\ msg.signature.digest = get_digest(ResponsePayload(msg.event_id, msg.validated))

\* C5: a ValidationResponse whose signature does not verify against its
\* embedded public key is discarded: handling it leaves pending_events and the
\* failure counters unchanged, and every response held by a pending event
\* verifies.
C5_InvalidResponseDiscarded ==
    /\ [][ (task["message"].pc = "r_lock" /\ ~SignedByEmbeddedKey(task["message"].msg)
            /\ task'["message"] # task["message"])
              => /\ pending_events' = pending_events
                 /\ SENSOR_FAILURE_COUNTS' = SENSOR_FAILURE_COUNTS
                 /\ task'["message"].pc = "idle"
                 /\ PENDING_LOCK' = PENDING_LOCK
         ]_vars
    /\ [](\A e \in DOMAIN pending_events :
            \A i \in DOMAIN pending_events[e].responses :
                SignedByEmbeddedKey(pending_events[e].responses[i]))

\* C5 witness: the handler is handling a response signed by another key than
\* the one it names, for an event that is pending.
C5_Witness ==
    /\ task["message"].pc = "r_lock"
    /\ task["message"].msg.event_id \in DOMAIN pending_events
    /\ task["message"].msg.signature.signer # task["message"].msg.public_key

\* C6: an inbound ValidationRequest whose signature does not verify against its
\* embedded public key is answered with no ValidationResponse.
C6_InvalidRequestGetsNoVote ==
    task["message"].pc = "q_send"
        => /\ task["message"].msg.signature.signer = task["message"].msg.public_key
           /\ task["message"].msg.signature.digest
                = get_digest(RequestPayload(task["message"].msg.event_id,
                                            task["message"].msg.location,
                                            task["message"].msg.sound_class,
                                            task["message"].msg.decibel))

\* C7: the slash request for a device is issued exactly in the rejection that
\* records its fifth failure (not the fourth), once, and the counter is reset
\* to zero when the request returns; the counter changes in no other way.
C7_SlashOnFifthFailure ==
    /\ [][ \A d \in ReadingDevices :
             SENSOR_FAILURE_COUNTS'[d] # SENSOR_FAILURE_COUNTS[d]
               => \/ /\ task["message"].pc = "r_group"
                     /\ d = EvaluatedDevice
                     /\ SENSOR_FAILURE_COUNTS'[d] = SENSOR_FAILURE_COUNTS[d] + 1
                     /\ (SENSOR_FAILURE_COUNTS[d] = 4) <=> (task'["message"].pc = "r_slash")
                  \/ /\ task["message"].pc = "r_slash"
                     /\ d = EvaluatedDevice
                     /\ SENSOR_FAILURE_COUNTS[d] = 5
                     /\ SENSOR_FAILURE_COUNTS'[d] = 0
                     /\ task'["message"].pc = "idle"
         ]_vars
    /\ [][ (task'["message"].pc = "r_slash" /\ task["message"].pc # "r_slash")
             => /\ task["message"].pc = "r_group"
                /\ SENSOR_FAILURE_COUNTS'[EvaluatedDevice] = 5
         ]_vars
    /\ [](\A d \in ReadingDevices :
            /\ SENSOR_FAILURE_COUNTS[d] \in 0..5
            /\ SENSOR_FAILURE_COUNTS[d] = 5
                 => (task["message"].pc = "r_slash" /\ d = EvaluatedDevice))

\* C7 witness: the slash request for d1 is in progress, five failures recorded.
C7_Witness ==
    /\ task["message"].pc = "r_slash"
    /\ SENSOR_FAILURE_COUNTS["d1"] = 5

\* C8: an accepted event resets the failure counter of its device to zero.
C8_SuccessResetsCounter ==
    [][ /\ (task["message"].pc = "fa_enriched" /\ task'["message"].pc = "idle")
            => SENSOR_FAILURE_COUNTS'[EvaluatedDevice] = 0
        /\ (task["sensor"].pc \in {"fa_enriched", "s_del_lock"} /\ task'["sensor"].pc = "idle")
            => SENSOR_FAILURE_COUNTS'[task["sensor"].msg.device_id] = 0
      ]_vars

\* C9: PENDING_LOCK is never held while a network call is in progress, and no
\* reading waits for the lock behind another event's external call.
C9_NoNetworkCallUnderLock ==
    /\ \A h \in Handlers : PENDING_LOCK = h => task[h].pc \notin NetworkLabels
    /\ ~ /\ task["sensor"].pc \in {"s_lock", "s_del_lock"}
         /\ PENDING_LOCK = "message"
         /\ task["message"].pc \in NetworkLabels

\* C10: a handler that is between the creation (or the read) of a pending
\* event and its deletion holds PENDING_LOCK throughout.
C10_SequencesUnderOneLock ==
    /\ task["sensor"].pc \in FinalLabels \cup {"s_del_lock"} => PENDING_LOCK = "sensor"
    /\ task["message"].pc \in FinalLabels \cup {"r_registry", "r_group", "r_slash"}
          => PENDING_LOCK = "message"

\* C11: a pending event is resolved at most once: the two handlers never run
\* the final actions for the same event, a handler that is about to delete
\* its event finds it in pending_events, and no failure is recorded for an
\* event whose final actions are running.
C11_ResolvedAtMostOnce ==
    /\ ~ /\ task["sensor"].pc \in FinalLabels
         /\ task["message"].pc \in FinalLabels
         /\ TaskEventId("sensor") = TaskEventId("message")
    /\ task["sensor"].pc \in FinalLabels \cup {"s_del_lock"}
          => TaskEventId("sensor") \in DOMAIN pending_events
    /\ ~ /\ task["sensor"].pc \in FinalLabels
         /\ task["message"].pc = "r_slash"
         /\ TaskEventId("sensor") = TaskEventId("message")

\* C12: with a peer group of more than one member the handler, having
\* recorded the event, sends the signed ValidationRequest to each member of the
\* group except the agent itself, one after the other until none is left, and
\* it does not hold PENDING_LOCK during any of the sends.
C12_FanOutAfterRecording ==
    /\ [][ LET s == task["sensor"]
               s2 == task'["sensor"]
           IN  /\ (s.pc \in {"s_group", "s_lock"} /\ s2.pc \notin {"s_group", "s_lock"}
                   /\ Cardinality(s2.group) > 1)
                     => /\ TaskEventId("sensor") \in DOMAIN pending_events'
                        /\ s2.pc = "s_send"
                        /\ {s2.peer} \cup s2.peers = s2.group \ {agent_address}
                        /\ s2.peer \notin s2.peers
               /\ (s.pc = "s_send" /\ s2 # s)
                     => \/ s.peers = {} /\ s2.pc = "idle"
                        \/ /\ s2.pc = "s_send"
                           /\ s2.peer \in s.peers
                           /\ s2.peers = s.peers \ {s2.peer}
                           /\ s2.reply = s.reply
         ]_vars
    /\ [](task["sensor"].pc = "s_send"
            => /\ PENDING_LOCK # "sensor"
               /\ task["sensor"].peer # agent_address
               /\ task["sensor"].reply.event_id = TaskEventId("sensor")
               /\ verify(task["sensor"].reply.public_key,
                         get_digest(RequestPayload(task["sensor"].reply.event_id,
                                                   task["sensor"].reply.location,
                                                   task["sensor"].reply.sound_class,
                                                   task["sensor"].reply.decibel)),
                         task["sensor"].reply.signature))

\* C12 witness: the last of the four requests of a five-member group is being
\* sent, the event recorded.
C12_Witness ==
    /\ task["sensor"].pc = "s_send"
    /\ task["sensor"].peers = {}
    /\ Cardinality(task["sensor"].group) = 5
    /\ TaskEventId("sensor") \in DOMAIN pending_events

\* A step in which the external call of handler h fails.
FailsIn(h, labels) ==
    /\ faults' # faults
    /\ task'[h] # task[h]
    /\ task[h].pc \in labels

\* C13: the three hand-offs of an accepted event are independent: when the
\* raw-data relay fails the fact relay is still attempted, and when the fact
\* relay fails (the notary lookup or the send) the enriched-data relay is
\* still attempted.
C13_HandOffsIndependent ==
    [][ \A h \in Handlers :
          /\ FailsIn(h, {"fa_raw"}) => task'[h].pc \in {"fa_notary_registry", "fa_fact"}
          /\ FailsIn(h, {"fa_notary_registry", "fa_fact"}) => task'[h].pc = "fa_enriched"
      ]_vars

\* C14: a failing relay (raw-data, fact, enriched-data, slash) does not block
\* the resolution: the handler neither repeats the call nor ends with the
\* event still pending, and after the last relay the event is removed.
C14_RelayFailureNeverBlocks ==
    [][ \A h \in Handlers :
          FailsIn(h, FinalLabels \cup {"r_slash"})
            => /\ task'[h].pc # task[h].pc
               /\ task'[h].pc # "exited"
               /\ task'[h].pc = "idle" => TaskEventId(h) \notin DOMAIN pending_events'
               /\ task[h].pc \in {"fa_enriched", "r_slash"}
                    => \/ TaskEventId(h) \notin DOMAIN pending_events'
                       \/ task'[h].pc = "s_del_lock"
      ]_vars

\* C16: when the send of the ValidationRequest to one peer fails, the request
\* is still sent to every remaining peer of the group.
C16_PeerSendFailuresIndependent ==
    [][ FailsIn("sensor", {"s_send"})
          => \/ task["sensor"].peers = {} /\ task'["sensor"].pc = "idle"
             \/ /\ task'["sensor"].pc = "s_send"
                /\ task'["sensor"].peer \in task["sensor"].peers
                /\ task'["sensor"].peers = task["sensor"].peers \ {task'["sensor"].peer}
      ]_vars

\* C20: when the slash request fails, the counter of the device is still reset
\* to zero (not incremented again), the request is not repeated and the
\* rejected event is removed from pending_events.
C20_SlashIsFireAndForget ==
    [][ FailsIn("message", {"r_slash"})
          => /\ SENSOR_FAILURE_COUNTS' =
                    [SENSOR_FAILURE_COUNTS EXCEPT ![EvaluatedDevice] = 0]
             /\ task'["message"].pc = "idle"
             /\ TaskEventId("message") \notin DOMAIN pending_events'
             /\ PENDING_LOCK' = "free"
      ]_vars

\* C20 witness: the slash request for d1 failed; its counter is zero again
\* and the rejected event is gone.
C20_Witness ==
    /\ faults.last = <<"message", "r_slash">>
    /\ SENSOR_FAILURE_COUNTS["d1"] = 0
    /\ task["message"].pc = "idle"
    /\ EventId("d1", 1) \notin DOMAIN pending_events

\* C15: a registry fetch that fails while a peer group is being resolved is
\* not taken for an empty peer set: the step neither records or auto-accepts
\* the event, nor evaluates a quorum (no final actions, no recorded failure).
C15_OutageIsNotNoPeers ==
    [][ /\ FailsIn("sensor", {"s_group"})
            => /\ pending_events' = pending_events
               /\ task'["sensor"].pc \notin FinalLabels
        /\ FailsIn("message", {"r_group"})
            => /\ task'["message"].pc \notin FinalLabels
               /\ SENSOR_FAILURE_COUNTS' = SENSOR_FAILURE_COUNTS
      ]_vars

\* The vote the agent casts in the step that answers a ValidationRequest.
VoteCast == task'["message"].reply.validated

\* A step in which handle_validation_request answers with the acceptance model.
AnswersRequest ==
    /\ task["message"].pc = "idle"
    /\ task'["message"].pc = "q_send"
    /\ LOCAL_SENSOR_STATE # None

\* C18: when the agent's own held reading is below NOISE_FLOOR_THRESHOLD = 20 dB
\* its vote on a request is positive, whatever the claimed location and level.
C18_NoiseFloorAccepts ==
    [][ (AnswersRequest /\ LOCAL_SENSOR_STATE.decibel < 20) => VoteCast ]_vars

\* The expected level (in hundredths of a dB) of the request the message
\* handler is answering, at the agent's distance from the claimed location.
ExpectedHere ==
    expected_decibel_at_distance(
        task'["message"].msg.decibel * 100,
        haversine_distance(task'["message"].msg.location, HomeLocation(MAC_ADDRESS)))

\* C19: when the agent's own held reading is at or above the noise floor, its
\* vote is positive exactly when the reading is at least the expected level
\* minus CALIBRATION_MARGIN = 5 dB.
C19_PhysicsCheck ==
    [][ (AnswersRequest /\ LOCAL_SENSOR_STATE.decibel >= 20)
          => (VoteCast <=> LOCAL_SENSOR_STATE.decibel * 100 >= ExpectedHere - 500) ]_vars

\* A payload that cannot be decoded into a SensorData record: no JSON object,
\* a field missing, or a decibel that is no number.
Malformed(payload) ==
    \/ payload.form # "object"
    \/ ~(SensorDataFields \subseteq DOMAIN payload.fields)
    \/ ~IsFloat(payload.fields.decibel)

CallbackRan == mqtt_msg.outcome = "delivered" /\ mqtt_msg' # mqtt_msg

SensorDataRecords == [device_id : ReadingDevices, timestamp : Timestamps, decibel : Decibels]

\* C17: a malformed inbound reading is rejected at ingestion. The callback
\* that receives it leaves the queue and the pending events as they were, and
\* at all times every queued item and every pending event's raw data is a
\* decoded SensorData record.
C17_MalformedRejectedAtIngestion ==
    [][ /\ (CallbackRan /\ Malformed(mqtt_msg.payload)) =>
             /\ message_queue' = message_queue
             /\ pending_events' = pending_events
             /\ mqtt_msg'.outcome = "error"
        /\ \A i \in DOMAIN message_queue' : message_queue'[i] \in SensorDataRecords
        /\ \A e \in DOMAIN pending_events' :
             pending_events'[e].raw_data \in SensorDataRecords ]_vars

\* A malformed payload was rejected while an earlier reading waits in the
\* queue and another one is a pending event.
C17_Witness ==
    /\ mqtt_msg.outcome = "error"
    /\ Malformed(mqtt_msg.payload)
    /\ message_queue # <<>>
    /\ DOMAIN pending_events # {}

\* The step in which the response handler, having taken the lock, looks the
\* response's event up.
ResponseLookupStep == task["message"].pc = "r_lock" /\ task'["message"].pc # "r_lock"

\* C21: a response for an event id that is not pending (resolved and removed,
\* or never created) is dropped: handling it changes neither pending_events
\* nor the failure counters, and the handler ends without entering the final
\* actions or the slash request.
C21_UnknownEventResponseDropped ==
    [][ (ResponseLookupStep /\ task["message"].msg.event_id \notin DOMAIN pending_events) =>
            /\ pending_events' = pending_events
            /\ SENSOR_FAILURE_COUNTS' = SENSOR_FAILURE_COUNTS
            /\ PENDING_LOCK' = PENDING_LOCK
            /\ NOTARY_AGENT_ADDRESS' = NOTARY_AGENT_ADDRESS
            /\ task'["message"] = Idle ]_vars

\* A validly signed response for d1's event is at the lookup after that event
\* was rejected and removed.
C21_Witness ==
    /\ task["message"].pc = "r_lock"
    /\ task["message"].msg.event_id = EventId("d1", 1)
    /\ ResponseVerifies(task["message"].msg)
    /\ EventId("d1", 1) \notin DOMAIN pending_events
    /\ SENSOR_FAILURE_COUNTS["d1"] > 0
    /\ PENDING_LOCK = "free"

\* C22: no timeout is enforced. A pending event leaves pending_events only in
\* a step of a handler that works on that very event id (a response for it, or
\* the reading that produces it) and ends with that step; no other step, and
\* no passing of time, removes it.
C22_NoTimeout ==
    [][ \A e \in DOMAIN pending_events :
            e \notin DOMAIN pending_events' =>
                \E h \in Handlers :
                    /\ task[h].pc \notin {"idle", "exited"}
                    /\ TaskEventId(h) = e
                    /\ task'[h].pc = "idle" ]_vars

\* d1's event waits with one negative response out of the two its three-member
\* group owes, no handler is running and the lock is free.
C22_Witness ==
    /\ EventId("d1", 1) \in DOMAIN pending_events
    /\ Len(pending_events[EventId("d1", 1)].responses) = 1
    /\ ~pending_events[EventId("d1", 1)].responses[1].validated
    /\ "d1" \in DOMAIN registry
    /\ Cardinality(get_local_peer_group(registry, registry["d1"])) = 3
    /\ \A h \in Handlers : task[h].pc = "idle"
    /\ PENDING_LOCK = "free"

\* The step in which handle_sensor_data, holding the lock, stores its event.
CreationStep ==
    /\ task["sensor"].pc \in {"s_group", "s_lock"}
    /\ task'["sensor"].pc \notin {"s_group", "s_lock"}

\* C23: a reading with the (device_id, timestamp) of a pending event gets that
\* event's id, and storing it replaces the pending record by a fresh one with
\* no responses; the other events are left as they were.
C23_ReingestOverwrites ==
    [][ CreationStep =>
            LET e == TaskEventId("sensor") IN
            /\ e \in DOMAIN pending_events'
            /\ pending_events'[e].raw_data = task["sensor"].msg
            /\ pending_events'[e].responses = <<>>
            /\ \A o \in DOMAIN pending_events \ {e} :
                  o \in DOMAIN pending_events' /\ pending_events'[o] = pending_events[o]
      ]_vars

\* handle_sensor_data is about to store d1's reading while the event of the
\* same reading is pending with a response already collected.
C23_Witness ==
    /\ task["sensor"].pc = "s_group"
    /\ PENDING_LOCK = "free"
    /\ TaskEventId("sensor") = EventId("d1", 1)
    /\ EventId("d1", 1) \in DOMAIN pending_events
    /\ Len(pending_events[EventId("d1", 1)].responses) > 0

\* The public keys of the devices the registry holds.
RegisteredKeys ==
    { PublicKeyOf(registry[mac].agent_seed) : mac \in DOMAIN registry \ {ReservedKey} }

\* C24: a response is bound only to a self-consistent signature. A response
\* for a pending event whose signature verifies under the key the response
\* itself names is appended to the event's responses, which the positive tally
\* and the exhaustion count are taken from, also when that key belongs to no
\* registered device.
C24_AnyKeypairIsCounted ==
    [][ LET msg == task["message"].msg
            e == msg.event_id
        IN  (/\ ResponseLookupStep
             /\ e \in DOMAIN pending_events
             /\ SignedByEmbeddedKey(msg)) =>
                /\ e \in DOMAIN pending_events'
                /\ pending_events'[e].responses = Append(pending_events[e].responses, msg)
                /\ task'["message"].pc = "r_registry"
      ]_vars

\* The quorum for d1's event, whose group has three members, was met by a
\* response signed with a key of no registered device.
C24_Witness ==
    /\ task["message"].pc = "fa_raw"
    /\ task["message"].msg.event_id = EventId("d1", 1)
    /\ task["message"].msg.public_key \notin RegisteredKeys
    /\ EventId("d1", 1) \in DOMAIN pending_events
    /\ \A i \in DOMAIN pending_events[EventId("d1", 1)].responses :
          pending_events[EventId("d1", 1)].responses[i].public_key \notin RegisteredKeys
    /\ "d1" \in DOMAIN registry
    /\ Cardinality(get_local_peer_group(registry, registry["d1"])) = 3

\* Two coordinates lie in the same cell when they agree once each is rounded
\* down to a multiple of the cell size.
SameCell(a, b) ==
    /\ a.latitude - (a.latitude % GRID_SIZE) = b.latitude - (b.latitude % GRID_SIZE)
    /\ a.longitude - (a.longitude % GRID_SIZE) = b.longitude - (b.longitude % GRID_SIZE)

QueryLocations == {LocA1, LocA2, LocB}

DeviceKeys == { mac \in DOMAIN registry : mac # ReservedKey }

\* C25: for every query location the peer group is exactly the set of the
\* addresses derived from the seeds of the registry's device entries whose
\* grid cell is the location's cell; the reserved key "_network_services"
\* contributes no peer.
C25_PeerGroupIsTheCell ==
    \A loc \in QueryLocations :
        get_local_peer_group(registry, loc) =
            { AddressOf(registry[mac].agent_seed) :
                  mac \in { m \in DeviceKeys : SameCell(registry[m], loc) } }

\* handle_sensor_data holds the peer group of d1's cell, five devices, while
\* the registry also holds the reserved key and d2 in another cell.
C25_Witness ==
    /\ task["sensor"].pc = "s_send"
    /\ task["sensor"].group = get_local_peer_group(registry, task["sensor"].location)
    /\ Cardinality(task["sensor"].group) = 5
    /\ ReservedKey \in DOMAIN registry
    /\ "d2" \in DOMAIN registry
    /\ ~SameCell(registry["d2"], task["sensor"].location)

\* The evaluation step of an event whose counted responses have reached the
\* expected peers while the positive votes are below the quorum.
RejectionStep ==
    /\ EvaluationStep
    /\ Len(EvaluatedResponses) >= GroupSizeNow - 1
    /\ PositiveNow < LeastQuorum(GroupSizeNow - 1)

\* handle_sensor_data is inside the final actions (the relay hand-offs) of the
\* event.
RelayInProgress(event_id) ==
    /\ task["sensor"].pc \in FinalLabels
    /\ TaskEventId("sensor") = event_id

\* C26: the rejection of an event touches the failure counter of the event's
\* own device only: it adds one to it, and at the threshold the slash request
\* that follows sets it to zero; the counters of the other devices stay, and
\* no relay hand-off is made for the event: the rejecting handler enters no
\* final action and leaves the notary cache alone, and the other handler is
\* not handing the same event off either.
C26_RejectionEscalatesOriginOnly ==
    [][ /\ RejectionStep =>
             /\ SENSOR_FAILURE_COUNTS' =
                   [SENSOR_FAILURE_COUNTS EXCEPT ![EvaluatedDevice] = @ + 1]
             /\ task'["message"].pc \in {"idle", "r_slash"}
             /\ (task'["message"].pc = "r_slash")
                   <=> (SENSOR_FAILURE_COUNTS[EvaluatedDevice] + 1 >= FAILURE_THRESHOLD)
             /\ NOTARY_AGENT_ADDRESS' = NOTARY_AGENT_ADDRESS
             /\ ~RelayInProgress(task["message"].msg.event_id)
        /\ (task["message"].pc = "r_slash" /\ task'["message"].pc # "r_slash") =>
             /\ SENSOR_FAILURE_COUNTS' =
                   [SENSOR_FAILURE_COUNTS EXCEPT ![EvaluatedDevice] = 0]
             /\ task'["message"].pc = "idle"
             /\ NOTARY_AGENT_ADDRESS' = NOTARY_AGENT_ADDRESS
      ]_vars

\* The peers expected to answer for a device: the members of its registered
\* cell other than itself.
ExpectedPeers(device_id) ==
    Cardinality({ m \in DeviceKeys : SameCell(registry[m], registry[device_id]) }) - 1

PositiveVotes(responses) == Cardinality({ i \in DOMAIN responses : responses[i].validated })

\* C27: whenever no handler is inside a locked section, every event in
\* pending_events is open: its counted responses are fewer than the expected
\* peers and its positive votes fewer than the quorum. An event that has met a
\* resolution condition is absent.
C27_PendingEventsAreOpen ==
    PENDING_LOCK = "free" =>
        \A e \in DOMAIN pending_events :
            LET event == pending_events[e]
                device_id == event.raw_data.device_id
            IN  device_id \in DOMAIN registry =>
                    /\ Len(event.responses) < ExpectedPeers(device_id)
                    /\ PositiveVotes(event.responses) < LeastQuorum(ExpectedPeers(device_id))

\* Two dicts hold the same value under the same keys.
SameItems(data1, data2) ==
    /\ Len(data1) = Len(data2)
    /\ \A i \in DOMAIN data1 :
          \E j \in DOMAIN data2 : data1[i][1] = data2[j][1] /\ data1[i][2] = data2[j][2]

\* C28: get_digest canonicalizes: two payloads with identical field values
\* have the same digest whatever the order in which their fields were
\* inserted.
C28_DigestIgnoresFieldOrder ==
    call.fn = "get_digest" =>
        (SameItems(call.args[1], call.args[2]) => call.result[1] = call.result[2])

\* get_digest gave one digest for two request payloads with the same four
\* fields, inserted in different orders.
C28_Witness ==
    /\ call.fn = "get_digest"
    /\ Len(call.args[1]) = 4
    /\ SameItems(call.args[1], call.args[2])
    /\ call.args[1][1][1] # call.args[2][1][1]
    /\ call.result[1] = call.result[2]

AcceptingShareMeets(request_data, peer_reports, threshold) ==
    LET usable == { i \in DOMAIN peer_reports : HasLocation(peer_reports[i][2]) }
        accepting == { i \in usable :
                         consensus_logic_validate_event(request_data, peer_reports[i][1],
                                                        peer_reports[i][2]) }
    IN  /\ usable # {}
        /\ Cardinality(accepting) * 100 >= threshold * Cardinality(usable)

\* C30: consensus_validation returns True if and only if the share of
\* accepting peers among the reports that carry a latitude and a longitude is
\* at least the threshold (0.6), and False otherwise, also when no report is
\* usable.
C30_ConsensusValidationThreshold ==
    call.fn = "consensus_validation" =>
        (call.result <=> AcceptingShareMeets(call.args.request_data, call.args.peer_reports,
                                             CONSENSUS_THRESHOLD))

\* A step in which handle_validation_request takes up a ValidationRequest.
RequestHandled ==
    /\ task["message"].pc = "idle"
    /\ task'["message"].pc = "q_send"

\* The reply held for ctx.send is a ValidationResponse for the request's event,
\* addressed to the request's sender and signed by the agent's own key over
\* the payload {event_id, validated} it carries.
SignedReplyTo(t, sender) ==
    /\ t.peer = sender
    /\ t.reply.type = "ValidationResponse"
    /\ t.reply.event_id = t.msg.event_id
    /\ t.reply.validated \in BOOLEAN
    /\ t.reply.public_key = PublicKeyOf(CONFIG.agent_seed)
    /\ verify(t.reply.public_key,
              get_digest(ResponsePayload(t.reply.event_id, t.reply.validated)),
              t.reply.signature)

Responders(responses, indices) == { responses[i].public_key : i \in indices }

\* C33: at most one vote per responder is counted for an event: the positive
\* tally (PositiveResponses) counts no more than the distinct responders that
\* voted true, and the exhaustion count (the length of the response list) no
\* more than the distinct responders that answered.
C33_OneVotePerResponder ==
    \A e \in DOMAIN pending_events :
        LET responses == pending_events[e].responses
            positive == { i \in DOMAIN responses : responses[i].validated }
        IN  /\ PositiveResponses(responses) <= Cardinality(Responders(responses, positive))
            /\ Len(responses) <= Cardinality(Responders(responses, DOMAIN responses))

\* The event went through the fan-out of ValidationRequests: it is pending and
\* handle_sensor_data is not holding it on the auto-accept path (the final
\* actions and the delete that follows them).
AwaitsResponses(event_id) ==
    /\ event_id \in DOMAIN pending_events
    /\ ~ /\ task["sensor"].pc \in FinalLabels \cup {"s_del_lock"}
         /\ TaskEventId("sensor") = event_id

\* The step of handle_validation_response that finds the quorum met and starts
\* the final actions.
QuorumAcceptStep ==
    /\ task["message"].pc = "r_group"
    /\ task'["message"].pc = "fa_raw"

\* C34: an event that entered awaiting-responses is resolved as accepted only
\* if at least one of its counted responses has validated = true, whatever the
\* registry holds at that moment.
C34_AcceptNeedsPositiveVote ==
    [][ (QuorumAcceptStep /\ AwaitsResponses(task["message"].msg.event_id))
            => PositiveNow >= 1 ]_vars

\* handle_sensor_data is in its fan-out loop for the event the message handler
\* is evaluating: its local_group is the group the requests go to.
FanOutOfEvaluatedEvent ==
    /\ task["sensor"].pc = "s_send"
    /\ TaskEventId("sensor") = task["message"].msg.event_id

\* The ValidationRequests of that fan-out: one per group address other than
\* the agent's own.
RequestsFannedOut == Cardinality(task["sensor"].group \ {agent_address})

\* C35: the expected peer count that handle_validation_response uses in its
\* quorum and rejection tests (the size of the group it reads, minus one)
\* equals the number of ValidationRequests fanned out for the event.
C35_ExpectedPeersAreRequestsSent ==
    [][ (EvaluationStep /\ FanOutOfEvaluatedEvent)
            => GroupSizeNow - 1 = RequestsFannedOut ]_vars

\* C36: with a fixed peer group and the same N-1 signature-valid responses, the
\* event is resolved, and resolved the same way (accepted or rejected), in
\* every order of delivery; only the response at which it resolves may differ.
C36_OutcomeIsOrderIndependent ==
    call.fn = "handle_validation_response" =>
        /\ call.result[1].outcome \in {"accepted", "rejected"}
        /\ call.result[2].outcome = call.result[1].outcome

\* Two orders of the same responses: both accepted, at different responses.
C36_Witness ==
    /\ call.fn = "handle_validation_response"
    /\ call.result[1].outcome = "accepted"
    /\ call.result[2].outcome = "accepted"
    /\ call.result[1].at # call.result[2].at

\* C37: with an unchanged registry and no failing call, when every peer that
\* was sent a ValidationRequest delivers its signature-valid response, an event
\* that awaits responses is eventually resolved and removed from
\* pending_events.
C37_AwaitingEventIsResolved ==
    \A event_id \in EventIds :
        AwaitsResponses(event_id) ~> (event_id \notin DOMAIN pending_events)

\* An event of the device d2 was rejected after its peers answered, and
\* nothing is pending or in flight any more.
C37_Witness ==
    /\ network.readings >= 1
    /\ network.requests = {}
    /\ pending_events = <<>>
    /\ \A h \in Handlers : task[h].pc = "idle"
    /\ SENSOR_FAILURE_COUNTS["d2"] = 1

\* C38: once the handler is past the slash request, every device's failure
\* counter is at least 0 and below FAILURE_THRESHOLD = 5 (the counter never
\* rests at or above the threshold), and for every device the slash requests
\* issued so far, times 5, do not exceed its rejected events.
C38_CounterBelowThreshold ==
    \A d \in ReadingDevices :
        /\ task["message"].pc # "r_slash"
              => SENSOR_FAILURE_COUNTS[d] \in 0..(FAILURE_THRESHOLD - 1)
        /\ history.slashed[d] * FAILURE_THRESHOLD <= history.rejected[d]

\* The fifth rejection of the agent's device was followed by a slash request,
\* the handler has ended and the counter is back at zero.
C38_Witness ==
    /\ history.rejected[MAC_ADDRESS] = FAILURE_THRESHOLD
    /\ history.slashed[MAC_ADDRESS] = 1
    /\ task["message"].pc = "idle"
    /\ SENSOR_FAILURE_COUNTS[MAC_ADDRESS] = 0

\* handle_sensor_data returns because the reading's device is not in the
\* registry it fetched.
DropStep ==
    /\ task["sensor"].pc = "s_registry"
    /\ task'["sensor"].pc = "idle"

\* C39: a reading whose device_id is not in the registry is dropped without
\* effect: no pending event is created, no message is sent (the handler ends
\* without reaching a send), and the agent's state is as before the reading,
\* the locally held reading included: what the agent holds after the drop is
\* not the dropped reading (the devices that are dropped here were never
\* registered, so no reading of theirs was held before).
C39_UnregisteredReadingDropped ==
    [][ DropStep =>
          /\ pending_events' = pending_events
          /\ SENSOR_FAILURE_COUNTS' = SENSOR_FAILURE_COUNTS
          /\ PENDING_LOCK' = PENDING_LOCK
          /\ NOTARY_AGENT_ADDRESS' = NOTARY_AGENT_ADDRESS
          /\ task'["sensor"] = Idle
          /\ LOCAL_SENSOR_STATE' # task["sensor"].msg
      ]_vars

\* The handler h starts the final actions (its first relay is invoked).
StartsRelays(h) == task[h].pc # "fa_raw" /\ task'[h].pc = "fa_raw"

\* handle_sensor_data has invoked relays for the event and has not yet deleted
\* it.
RelaysInvoked(event_id) ==
    /\ task["sensor"].pc \in FinalLabels \cup {"s_del_lock"}
    /\ TaskEventId("sensor") = event_id

\* C40: the relay hand-offs are made for accepted events only: a handler
\* starts the final actions only on the auto-accept path (the event's group
\* has at most one member) or on a met quorum, and an event that is resolved
\* as rejected is not one whose relays (raw data, fact, enriched data) have
\* been invoked.
C40_RelaysOnlyForAccepted ==
    [][ /\ StartsRelays("sensor")
            => /\ task["sensor"].pc \in {"s_group", "s_lock"}
               /\ Cardinality(task'["sensor"].group) <= 1
        /\ StartsRelays("message")
            => /\ task["message"].pc = "r_group"
               /\ PositiveNow >= LeastQuorum(GroupSizeNow - 1)
        /\ (EvaluationStep /\ RejectedInStep)
            => ~RelaysInvoked(task["message"].msg.event_id)
      ]_vars

\* C31: in the atoms the notary has appended to the gist, no loc_id has more
\* than one location atom, and every noise_event atom is preceded (in an
\* earlier update or earlier in the same one) by the location atom of its
\* loc_id, also after a gist update that failed.
C31_EventsHaveTheirLocation ==
    /\ \A i, j \in DOMAIN gist :
          (gist[i][1] = "location" /\ gist[j] = gist[i]) => i = j
    /\ \A i \in DOMAIN gist :
          gist[i][1] = "noise_event"
              => \E j \in 1..(i - 1) : gist[j] = <<"location", gist[i][3]>>

====
